---- MODULE Spec2Model ----
(***************************************************************************)
(* Graph store and navigation tracker of kibana-pathfinder.                *)
(*                                                                         *)
(* The store (StateManager._state) holds three arrays: nodes, edges and    *)
(* groups.  NavigationTracker mutates it from the editor's events; the     *)
(* webview view provider mutates it from webview messages.  All handlers   *)
(* run to completion on the single extension-host thread, so each handler  *)
(* is one atomic action.                                                   *)
(***************************************************************************)
EXTENDS Integers, Sequences, FiniteSets, Bags, TLC

VARIABLES
    workspaceFiles,     \* the files of the workspace the developer opens
    state,              \* StateManager._state: [nodes, edges, groups]
    workspaceState,     \* the blob stored under STATE_KEY, absent before the
                        \* first _persistState
    previousFilePath,   \* NavigationTracker._previousFilePath
    view,               \* the webview: the arrays and the view mode App holds,
                        \* the plugin list, and PathfinderGraph's laid out
                        \* groups of complete mode
    tracking,           \* NavigationTracker's pending symbol, the clock, and
                        \* the symbol lookups it awaits
    index,              \* PluginCacheManager: the cache, the initialization
                        \* flag and promise, and the initialize() calls
    layout,             \* the webview's layout passes: the nodes or the
                        \* request handed to a pass, and what it returned
    last                \* the handler that ran last, its argument, and what it
                        \* found in the store: a node for the argument (for
                        \* a mode change: a group to add or delete), and the
                        \* type of that node's or file's group

vars ==
    <<workspaceFiles, state, workspaceState, previousFilePath, view, tracking,
      index, layout, last>>

-----------------------------------------------------------------------------
(* JavaScript values *)

\* the value undefined where a string is expected (groupId, edgeType, path)
undefined == "undefined"

\* an optional array or object: absent, or present with value v
Absent == <<>>
Present(v) == <<v>>
IsPresent(opt) == Len(opt) > 0
ValueOf(opt) == opt[1]

\* Array.prototype.includes
Includes(seq, x) == \E i \in 1..Len(seq) : seq[i] = x

\* String.prototype.startsWith
StartsWith(s, prefix) ==
    /\ Len(s) >= Len(prefix)
    /\ SubSeq(s, 1, Len(prefix)) = prefix

\* s.replace(pat, ''): removes the first occurrence of pat, if any
RemoveFirst(s, pat) ==
    LET n == Len(pat)
        hits == {i \in 1..(Len(s) - n + 1) : SubSeq(s, i, i + n - 1) = pat}
    IN  IF hits = {} THEN s
        ELSE LET i == CHOOSE j \in hits : \A k \in hits : j <= k
             IN  SubSeq(s, 1, i - 1) \o SubSeq(s, i + n, Len(s))

-----------------------------------------------------------------------------
(* Layout constants *)

GROUP_PADDING == 4
GROUP_HEADER_HEIGHT == 50
NODE_WIDTH == 260
NODE_HEIGHT == 80
NODE_SPACING == 4

\* size of a dependency placeholder created by _createDependencyGroups
DEP_WIDTH == 200
DEP_HEIGHT == 50
\* size given to a group demoted on close
DEMOTED_WIDTH == 100
DEMOTED_HEIGHT == 50
\* size _updateGroupSize gives to a group without nodes
EMPTY_WIDTH == 200
EMPTY_HEIGHT == 50

-----------------------------------------------------------------------------
(* The workspace: files, plugin directories and their manifests *)

WorkspaceRoot == "/w"

\* kibana.jsonc of each plugin directory, as _findPluginInfo parses it
Manifests ==
    [dir \in {"/w/a", "/w/b", "/w/c"} |->
        CASE dir = "/w/a" -> [id |-> "@kbn/a-plugin", runtimeId |-> "a",
                              requiredPlugins |-> <<"b">>, pluginDir |-> dir]
          [] dir = "/w/b" -> [id |-> "@kbn/b-plugin", runtimeId |-> "b",
                              requiredPlugins |-> <<"d">>, pluginDir |-> dir]
          [] dir = "/w/c" -> [id |-> "@kbn/c-plugin", runtimeId |-> "c",
                              requiredPlugins |-> <<"b", "d">>, pluginDir |-> dir]]

\* the workspaces explored: files of three plugins; two files of one plugin and
\* one of a plugin it requires; two files of one plugin whose paths have the
\* same hash, and a file outside every plugin
Workspaces ==
    { {"/w/a/Aa.ts", "/w/b/y.ts", "/w/c/z.ts"},
      {"/w/a/Aa.ts", "/w/a/x.ts", "/w/b/y.ts"},
      {"/w/a/Aa.ts", "/w/a/BB.ts", "/w/u.ts"} }

Files == UNION Workspaces

\* path.dirname
Dirname(p) ==
    LET slashes == {i \in 1..Len(p) : SubSeq(p, i, i) = "/"}
        i == IF slashes = {} THEN 0
             ELSE CHOOSE j \in slashes : \A k \in slashes : k <= j
    IN  IF i = 0 THEN "."
        ELSE IF i = 1 THEN "/"
        ELSE SubSeq(p, 1, i - 1)

RECURSIVE WalkUp(_)
WalkUp(currentDir) ==
    IF ~StartsWith(currentDir, WorkspaceRoot) THEN Absent
    ELSE IF currentDir \in DOMAIN Manifests THEN Present(Manifests[currentDir])
    ELSE LET parentDir == Dirname(currentDir)
         IN  IF parentDir = currentDir THEN Absent ELSE WalkUp(parentDir)

\* _findPluginInfo: the nearest manifest in the ancestor directories of filePath,
\* inside the workspace
FindPluginInfo(filePath) == WalkUp(Dirname(filePath))

\* localPluginInfoCache: what _findPluginInfo answers for each file
pluginInfoOf == [f \in Files |-> FindPluginInfo(f)]

-----------------------------------------------------------------------------
(* Node ids: a 32-bit hash of the path *)

\* runs of consecutive character codes: the characters of file paths
CharRuns ==
    << [first |-> 45, chars |-> "-./0123456789:"],
       [first |-> 64, chars |-> "@ABCDEFGHIJKLMNOPQRSTUVWXYZ"],
       [first |-> 95, chars |-> "_"],
       [first |-> 97, chars |-> "abcdefghijklmnopqrstuvwxyz"] >>

\* String.prototype.charCodeAt, as a table from character to code
CharCode ==
    LET Code(c) ==
            LET r == CHOOSE k \in 1..Len(CharRuns) :
                        \E i \in 1..Len(CharRuns[k].chars) :
                            SubSeq(CharRuns[k].chars, i, i) = c
                i == CHOOSE j \in 1..Len(CharRuns[r].chars) :
                        SubSeq(CharRuns[r].chars, j, j) = c
            IN  CharRuns[r].first + i - 1
    IN  [c \in UNION {{SubSeq(CharRuns[k].chars, i, i) :
                          i \in 1..Len(CharRuns[k].chars)} : k \in 1..Len(CharRuns)}
            |-> Code(c)]

Two16 == 65536

\* hash = ((hash << 5) - hash + char) & 0xffffffff on a 32-bit word kept as two
\* 16-bit halves
HashStep(h, char) ==
    LET t == h.lo * 31 + char
    IN  [lo |-> t % Two16, hi |-> (h.hi * 31 + t \div Two16) % Two16]

RECURSIVE HashFrom(_, _, _)
HashFrom(h, filePath, i) ==
    IF i > Len(filePath) THEN h
    ELSE HashFrom(HashStep(h, CharCode[SubSeq(filePath, i, i)]), filePath, i + 1)

\* Math.abs of the word read as a signed 32-bit integer
Abs32(h) ==
    IF h.hi < 32768 THEN h
    ELSE [lo |-> (Two16 - h.lo) % Two16,
          hi |-> 65535 - h.hi + (IF h.lo = 0 THEN 1 ELSE 0)]

HexDigits == "0123456789abcdef"
HexDigit(d) == SubSeq(HexDigits, d + 1, d + 1)

RECURSIVE Hex(_)
Hex(n) == IF n < 16 THEN HexDigit(n) ELSE Hex(n \div 16) \o HexDigit(n % 16)

Hex4(n) == HexDigit(n \div 4096) \o HexDigit((n \div 256) % 16)
           \o HexDigit((n \div 16) % 16) \o HexDigit(n % 16)

\* Number.prototype.toString(16)
ToString16(h) == IF h.hi = 0 THEN Hex(h.lo) ELSE Hex(h.hi) \o Hex4(h.lo)

GenerateNodeId(filePath) ==
    "node-" \o ToString16(Abs32(HashFrom([lo |-> 0, hi |-> 0], filePath, 1)))

\* the node id of each file of the workspaces
nodeIdOf == [f \in Files |-> GenerateNodeId(f)]

GroupIdOf(runtimeId) == "group-" \o runtimeId

-----------------------------------------------------------------------------
(* StateManager *)

(***************************************************************************)
(* The three arrays of the store are kept as bags: an array may hold an    *)
(* item twice, and the handlers only push, filter, search by id and count. *)
(* Where a handler walks an array, every order of the array is explored.   *)
(***************************************************************************)

\* Array.prototype.push
Push(items, item) == items (+) SetToBag({item})

\* Array.prototype.filter
Filter(items, Keep(_)) ==
    LET kept == {x \in BagToSet(items) : Keep(x)}
    IN  [x \in kept |-> items[x]]

\* Array.prototype.some
Some(items, Test(_)) == \E x \in BagToSet(items) : Test(x)

\* Array.prototype.length
Length(items) == BagCardinality(items)

\* Array.prototype.find: an item that passes the test, or Absent
Find(items, Test(_)) ==
    IF Some(items, Test)
    THEN Present(CHOOSE x \in BagToSet(items) : Test(x))
    ELSE Absent

\* the orders in which the items can lie in the array
Orderings(items) ==
    {seq \in [1..Length(items) -> BagToSet(items)] :
        \A x \in BagToSet(items) :
            Cardinality({i \in 1..Length(items) : seq[i] = x}) = items[x]}

EmptyState == [nodes |-> EmptyBag, edges |-> EmptyBag, groups |-> EmptyBag]

HasId(items, id) == Some(items, LAMBDA x : x.id = id)

FindById(items, id) == Find(items, LAMBDA x : x.id = id)

\* an add that pushes without looking for the id
AddNodeUnchecked(st, node) == [st EXCEPT !.nodes = Push(@, node)]

AddNode(st, node) ==
    IF HasId(st.nodes, node.id) THEN st
    ELSE [st EXCEPT !.nodes = Push(@, node)]

AddEdge(st, edge) ==
    IF HasId(st.edges, edge.id) THEN st
    ELSE [st EXCEPT !.edges = Push(@, edge)]

DeleteNode(st, nodeId) ==
    [st EXCEPT
        !.nodes = Filter(@, LAMBDA n : n.id # nodeId),
        !.edges = Filter(@, LAMBDA e : e.source # nodeId /\ e.target # nodeId)]

AddGroup(st, group) ==
    IF HasId(st.groups, group.id) THEN st
    ELSE [st EXCEPT !.groups = Push(@, group)]

\* an update that appends the group and keeps the item it should replace
UpdateGroupAppending(st, group) ==
    IF HasId(st.groups, group.id)
    THEN [st EXCEPT !.groups = Push(@, group)]
    ELSE st

\* groups[index] = group, index the place of an item with the id of group
UpdateGroup(st, group) ==
    LET found == FindById(st.groups, group.id)
    IN  IF IsPresent(found)
        THEN [st EXCEPT !.groups = Push(@ (-) SetToBag({ValueOf(found)}), group)]
        ELSE st

\* the group with that id, or Absent
GetGroup(st, groupId) == FindById(st.groups, groupId)

DeleteGroup(st, groupId) ==
    [st EXCEPT !.groups = Filter(@, LAMBDA g : g.id # groupId)]

GetNodesInGroup(st, groupId) == Filter(st.nodes, LAMBDA n : n.groupId = groupId)

ClearState == EmptyState

-----------------------------------------------------------------------------
(* PluginCacheManager: the plugin directory index *)

\* _cache is a Map: a sequence of [key, info] in insertion order.  _initPromise
\* is 0 for null, or the number of a promise of promises; promises holds, for
\* each _buildCache started, whether it is pending or fulfilled.  calls holds
\* the initialize() calls: not made, awaiting the promise it created, chained
\* to the promise it returned, or resolved.
MaxCalls == 3

MaxClears == 1

InitialIndex ==
    [cache |-> <<>>, initialized |-> FALSE, initPromise |-> 0,
     promises |-> <<>>, clears |-> 0,
     calls |-> [c \in 1..MaxCalls |-> [status |-> "none", promise |-> 0]]]

\* String.prototype.toLowerCase
ToLowerCase(s) ==
    LET upper == "ABCDEFGHIJKLMNOPQRSTUVWXYZ"
        lower == "abcdefghijklmnopqrstuvwxyz"
        Lowered(c) ==
            IF \E k \in 1..Len(upper) : SubSeq(upper, k, k) = c
            THEN LET k == CHOOSE j \in 1..Len(upper) : SubSeq(upper, j, j) = c
                 IN  SubSeq(lower, k, k)
            ELSE c
        RECURSIVE From(_)
        From(i) == IF i > Len(s) THEN "" ELSE Lowered(SubSeq(s, i, i)) \o From(i + 1)
    IN  From(1)

\* Map.prototype.set: the value of an existing key is replaced where it is, a
\* new key is added at the end
MapSet(map, key, value) ==
    IF \E i \in DOMAIN map : map[i].key = key
    THEN [i \in DOMAIN map |->
            IF map[i].key = key THEN [key |-> key, value |-> value] ELSE map[i]]
    ELSE Append(map, [key |-> key, value |-> value])

\* Map.prototype.get
MapGet(map, key) ==
    IF \E i \in DOMAIN map : map[i].key = key
    THEN Present(map[CHOOSE i \in DOMAIN map : map[i].key = key].value)
    ELSE Absent

\* the body of the loop of _buildCache for one kibana.jsonc file
Cached(cache, file) ==
    IF file.parses /\ file.runtimeId # ""
    THEN LET info == [runtimeId |-> file.runtimeId, packageId |-> file.packageId,
                      directory |-> file.directory,
                      requiredPlugins |-> file.requiredPlugins]
             c1 == MapSet(cache, file.runtimeId, info)
             c2 == MapSet(c1, ToLowerCase(file.runtimeId), info)
         IN  IF file.packageId # "" THEN MapSet(c2, file.packageId, info) ELSE c2
    ELSE cache

\* the loop of _buildCache over kibanaJsonFiles, from file i on
RECURSIVE BuildCacheFrom(_, _, _)
BuildCacheFrom(cache, kibanaJsonFiles, i) ==
    IF i > Len(kibanaJsonFiles) THEN cache
    ELSE BuildCacheFrom(Cached(cache, kibanaJsonFiles[i]), kibanaJsonFiles, i + 1)

\* the loop of getAllPlugins over _cache.values(), from entry i on
RECURSIVE AllPluginsFrom(_, _, _)
AllPluginsFrom(cache, seen, i) ==
    IF i > Len(cache) THEN <<>>
    ELSE LET info == cache[i].value
         IN  IF info.runtimeId \notin seen
             THEN <<info>> \o AllPluginsFrom(cache, seen \cup {info.runtimeId}, i + 1)
             ELSE AllPluginsFrom(cache, seen, i + 1)

GetAllPlugins(cache) == AllPluginsFrom(cache, {}, 1)

GetByRuntimeId(cache, runtimeId) ==
    IF IsPresent(MapGet(cache, runtimeId)) THEN MapGet(cache, runtimeId)
    ELSE MapGet(cache, ToLowerCase(runtimeId))

\* info?.packageId || runtimeId
GetDisplayName(cache, runtimeId) ==
    LET info == GetByRuntimeId(cache, runtimeId)
    IN  IF IsPresent(info) /\ ValueOf(info).packageId # ""
        THEN ValueOf(info).packageId
        ELSE runtimeId

\* a step of the index
Indexed(op, arg, found, ix) ==
    /\ index' = ix
    /\ last' = [op |-> op, arg |-> arg, found |-> found, group |-> "none"]
    /\ UNCHANGED <<workspaceFiles, state, workspaceState, previousFilePath, view,
                   tracking, layout>>

\* an initialize() that starts _buildCache whenever the index is not
\* initialized
InitializeUnguarded(c) ==
    /\ index.calls[c].status = "none"
    /\ IF index.initialized
       THEN Indexed("initialize", c, FALSE,
                [index EXCEPT !.calls[c] = [status |-> "resolved", promise |-> 0]])
       ELSE Indexed("initialize", c, TRUE,
                [index EXCEPT
                    !.promises = Append(@, "pending"),
                    !.initPromise = Len(index.promises) + 1,
                    !.calls[c] = [status |-> "awaiting",
                                  promise |-> Len(index.promises) + 1]])

\* initialize() up to its return or its await: call c returns at once when the
\* index is initialized, returns _initPromise when there is one, and else
\* starts _buildCache (which runs up to the await of findFiles) and awaits it
Initialize(c) ==
    /\ index.calls[c].status = "none"
    /\ IF index.initialized
       THEN Indexed("initialize", c, FALSE,
                [index EXCEPT !.calls[c] = [status |-> "resolved", promise |-> 0]])
       ELSE IF index.initPromise # 0
       THEN Indexed("initialize", c, FALSE,
                [index EXCEPT !.calls[c] = [status |-> "chained",
                                            promise |-> index.initPromise]])
       ELSE Indexed("initialize", c, TRUE,
                [index EXCEPT
                    !.promises = Append(@, "pending"),
                    !.initPromise = Len(index.promises) + 1,
                    !.calls[c] = [status |-> "awaiting",
                                  promise |-> Len(index.promises) + 1]])

\* findFiles resolves for the _buildCache of promise p and the loop runs over
\* the files it found, in the order it found them
BuildCacheCompletes(p, kibanaJsonFiles) ==
    /\ p \in DOMAIN index.promises
    /\ index.promises[p] = "pending"
    /\ Indexed("buildCache", kibanaJsonFiles, TRUE,
            [index EXCEPT !.promises[p] = "fulfilled",
                          !.cache = BuildCacheFrom(@, kibanaJsonFiles, 1)])

\* findFiles rejects: _buildCache logs the error and returns
BuildCacheFails(p) ==
    /\ p \in DOMAIN index.promises
    /\ index.promises[p] = "pending"
    /\ Indexed("buildCache", <<>>, FALSE, [index EXCEPT !.promises[p] = "fulfilled"])

\* the caller of call c sees its promise resolved: the call that awaits
\* _buildCache sets _initialized, a call that returned _initPromise follows it
InitializeResolves(c) ==
    /\ index.calls[c].status \in {"awaiting", "chained"}
    /\ index.promises[index.calls[c].promise] = "fulfilled"
    /\ Indexed("initialized", c, index.calls[c].status = "awaiting",
            [index EXCEPT
                !.initialized = @ \/ index.calls[c].status = "awaiting",
                !.calls[c].status = "resolved"])

\* clear()
Clear ==
    /\ index.clears < MaxClears
    /\ Indexed("clear", "", FALSE,
            [index EXCEPT !.cache = <<>>, !.initialized = FALSE,
                          !.initPromise = 0, !.clears = @ + 1])

-----------------------------------------------------------------------------
(* NavigationTracker: groups *)

\* g.requiredPlugins?.includes(runtimeId)
Requires(g, runtimeId) ==
    /\ IsPresent(g.requiredPlugins)
    /\ Includes(ValueOf(g.requiredPlugins), runtimeId)

MainGroupWidth == NODE_WIDTH + GROUP_PADDING * 2
MainGroupHeight == GROUP_HEADER_HEIGHT + NODE_HEIGHT + GROUP_PADDING * 2

\* the placeholder group of a required plugin
DependencyGroup(depGroupId, depDisplayName) ==
    [id |-> depGroupId, label |-> depDisplayName, type |-> "dependency",
     width |-> DEP_WIDTH, height |-> DEP_HEIGHT, requiredPlugins |-> Absent]

\* a dependency edge drawn from the requiring plugin to the required one
DependencyEdgeReversed(depGroupId, mainGroupId) ==
    [id |-> "dep-" \o depGroupId \o "-" \o mainGroupId,
     source |-> mainGroupId, target |-> depGroupId, edgeType |-> "dependency"]

\* the edge from a required plugin's group to the group of the plugin requiring it
DependencyEdge(depGroupId, mainGroupId) ==
    [id |-> "dep-" \o depGroupId \o "-" \o mainGroupId,
     source |-> depGroupId, target |-> mainGroupId, edgeType |-> "dependency"]

\* the forEach of _createDependencyGroups from index i on: a placeholder group for
\* each required plugin that has no group, and the edge from it to the main group
RECURSIVE CreateDependencyGroupsFrom(_, _, _, _)
CreateDependencyGroupsFrom(st, requiredPlugins, mainGroupId, i) ==
    IF i > Len(requiredPlugins) THEN st
    ELSE
        LET depPluginId == requiredPlugins[i]
            depGroupId == GroupIdOf(depPluginId)
            depExists == HasId(st.groups, depGroupId)
            depDisplayName == GetDisplayName(index.cache, depPluginId)
            st1 == IF ~depExists
                   THEN AddGroup(st, DependencyGroup(depGroupId, depDisplayName))
                   ELSE st
            depEdge == DependencyEdge(depGroupId, mainGroupId)
            edgeExists == HasId(st1.edges, depEdge.id)
            st2 == IF ~edgeExists THEN AddEdge(st1, depEdge) ELSE st1
        IN  CreateDependencyGroupsFrom(st2, requiredPlugins, mainGroupId, i + 1)

CreateDependencyGroups(st, requiredPlugins, mainGroupId) ==
    CreateDependencyGroupsFrom(st, requiredPlugins, mainGroupId, 1)

\* a dependency group given type plugin and the plugin's size, without the
\* plugin's requiredPlugins
UpgradedGroupWithoutList(existingGroup, info) ==
    [existingGroup EXCEPT
        !.type = "plugin",
        !.width = MainGroupWidth,
        !.height = MainGroupHeight]

\* a dependency group given the plugin's size and requiredPlugins, left with
\* type dependency
UpgradedGroupKeepingType(existingGroup, info) ==
    [existingGroup EXCEPT
        !.width = MainGroupWidth,
        !.height = MainGroupHeight,
        !.requiredPlugins = Present(info.requiredPlugins)]

\* a dependency group converted to the group of the plugin of info
UpgradedGroup(existingGroup, info) ==
    [existingGroup EXCEPT
        !.type = "plugin",
        !.width = MainGroupWidth,
        !.height = MainGroupHeight,
        !.requiredPlugins = Present(info.requiredPlugins)]

\* the group of a plugin that had none
NewGroup(groupId, info) ==
    [id |-> groupId, label |-> info.id, type |-> "plugin",
     width |-> MainGroupWidth, height |-> MainGroupHeight,
     requiredPlugins |-> Present(info.requiredPlugins)]

\* _ensureGroup: the store afterwards and the group id it returns
EnsureGroup(st, pluginInfo) ==
    IF ~IsPresent(pluginInfo) THEN [st |-> st, groupId |-> undefined]
    ELSE
        LET info == ValueOf(pluginInfo)
            groupId == GroupIdOf(info.runtimeId)
            existingGroup == GetGroup(st, groupId)
        IN  IF IsPresent(existingGroup) /\ ValueOf(existingGroup).type = "dependency"
            THEN
                LET upgradedGroup == UpgradedGroup(ValueOf(existingGroup), info)
                IN  [st |-> CreateDependencyGroups(UpdateGroup(st, upgradedGroup),
                                                   info.requiredPlugins, groupId),
                     groupId |-> groupId]
            ELSE IF ~IsPresent(existingGroup)
            THEN
                LET newGroup == NewGroup(groupId, info)
                IN  [st |-> CreateDependencyGroups(AddGroup(st, newGroup),
                                                   info.requiredPlugins, groupId),
                     groupId |-> groupId]
            ELSE [st |-> st, groupId |-> groupId]

UpdateGroupSize(st, groupId) ==
    LET found == GetGroup(st, groupId)
    IN  IF ~IsPresent(found) THEN st
        ELSE
            LET group == ValueOf(found)
                nodeCount == Length(GetNodesInGroup(st, groupId))
                requiredHeight ==
                    IF nodeCount = 0 THEN EMPTY_HEIGHT
                    ELSE GROUP_HEADER_HEIGHT
                         + nodeCount * (NODE_HEIGHT + NODE_SPACING) + GROUP_PADDING
                requiredWidth == IF nodeCount = 0 THEN EMPTY_WIDTH ELSE group.width
            IN  IF requiredHeight # group.height \/ requiredWidth # group.width
                THEN UpdateGroup(st, [group EXCEPT !.width = requiredWidth,
                                                   !.height = requiredHeight])
                ELSE st

\* the loop of _cleanupOrphanedDependencies from index i on.  currentState is the
\* snapshot taken before the loop: deleteGroup replaces the groups array of the
\* store, so the snapshot keeps the groups the loop has deleted.
RECURSIVE CleanupFrom(_, _, _, _)
CleanupFrom(st, currentState, dependencyPluginIds, i) ==
    IF i > Len(dependencyPluginIds) THEN st
    ELSE
        LET depPluginId == dependencyPluginIds[i]
            depGroupId == GroupIdOf(depPluginId)
            depGroupFound == HasId(currentState.groups, depGroupId)
            nodesInDepGroup == GetNodesInGroup(currentState, depGroupId)
            stillRequired ==
                Some(currentState.groups,
                     LAMBDA g : /\ g.type = "plugin"
                                /\ g.id # depGroupId
                                /\ Requires(g, depPluginId))
            st1 == IF depGroupFound /\ Length(nodesInDepGroup) = 0 /\ ~stillRequired
                   THEN DeleteGroup(st, depGroupId)
                   ELSE st
        IN  CleanupFrom(st1, currentState, dependencyPluginIds, i + 1)

CleanupOrphanedDependencies(st, dependencyPluginIds) ==
    CleanupFrom(st, st, dependencyPluginIds, 1)

\* a plugin group converted back to a dependency group
ConvertedGroup(groupToRemove) ==
    [groupToRemove EXCEPT !.type = "dependency",
                          !.width = DEMOTED_WIDTH,
                          !.height = DEMOTED_HEIGHT,
                          !.requiredPlugins = Absent]

\* the branch of _onDocumentClose taken when the closed node's group has no node
\* left: demote the group if another plugin group requires it, delete it otherwise
RemoveEmptiedGroup(st, groupId) ==
    LET groupToRemove == GetGroup(st, groupId)
    IN  IF ~IsPresent(groupToRemove) THEN st
        ELSE
            LET group == ValueOf(groupToRemove)
                runtimeId == RemoveFirst(groupId, "group-")
                stillRequiredBy ==
                    Some(st.groups,
                         LAMBDA g : /\ g.type = "plugin"
                                    /\ g.id # groupId
                                    /\ Requires(g, runtimeId))
                st1 == IF stillRequiredBy THEN UpdateGroup(st, ConvertedGroup(group))
                       ELSE DeleteGroup(st, groupId)
            IN  IF IsPresent(group.requiredPlugins)
                THEN CleanupOrphanedDependencies(st1, ValueOf(group.requiredPlugins))
                ELSE st1

-----------------------------------------------------------------------------
(* NavigationTracker: the pending symbol *)

\* The clock counts ticks of MsPerTick milliseconds; Date.now() is
\* now * MsPerTick.  lookups holds the _findContainingSymbol calls that are
\* awaited, by the symbol touched; calls for the same symbol count as one.
MsPerTick == 250

MaxTicks == 2

RecentSymbolWindow == 500

\* the fields of a NavigationTracker just constructed
InitialTracking ==
    [now |-> 0, lastTrackedSymbol |-> Absent, lastSymbolTimestamp |-> 0,
     lastContainingSymbol |-> Absent, lookups |-> {}]

\* /^[a-zA-Z_][a-zA-Z0-9_]*$/.test(word) && word.length > 1
IsIdentifier(word) ==
    LET code(i) == CharCode[SubSeq(word, i, i)]
        letter(c) == (65 <= c /\ c <= 90) \/ (97 <= c /\ c <= 122) \/ c = 95
        digit(c) == 48 <= c /\ c <= 57
    IN  /\ Len(word) > 1
        /\ letter(code(1))
        /\ \A i \in 2..Len(word) : letter(code(i)) \/ digit(code(i))

\* a hasRecentSymbol that does not look at the clock
HasRecentSymbolAtAnyTime(trk, prev, filePath) ==
    /\ IsPresent(trk.lastTrackedSymbol)
    /\ prev # undefined
    /\ prev # filePath

HasRecentSymbol(trk, prev, filePath) ==
    /\ IsPresent(trk.lastTrackedSymbol)
    /\ prev # undefined
    /\ prev # filePath
    /\ (trk.now - trk.lastSymbolTimestamp) * MsPerTick < RecentSymbolWindow

\* node.symbols || []
SymbolsOf(symbols) == IF IsPresent(symbols) THEN ValueOf(symbols) ELSE <<>>

\* symbols.some(s => s.name === symbol.name && s.line === symbol.line)
SymbolExists(symbols, symbol) ==
    \E i \in DOMAIN SymbolsOf(symbols) :
        /\ SymbolsOf(symbols)[i].name = symbol.name
        /\ SymbolsOf(symbols)[i].line = symbol.line

\* StateManager.addSymbolToNode: the symbol appended to the symbols of the
\* node, unless they hold one of that name and line
AddSymbolToNode(st, nodeId, symbol) ==
    LET node == FindById(st.nodes, nodeId)
    IN  IF IsPresent(node) /\ ~SymbolExists(ValueOf(node).symbols, symbol)
        THEN [st EXCEPT !.nodes =
                Push(@ (-) SetToBag({ValueOf(node)}),
                     [ValueOf(node) EXCEPT
                        !.symbols = Present(Append(SymbolsOf(@), symbol))])]
        ELSE st

\* StateManager.addSourceSymbolToNode: the same on sourceSymbols
AddSourceSymbolToNode(st, nodeId, symbol) ==
    LET node == FindById(st.nodes, nodeId)
    IN  IF IsPresent(node) /\ ~SymbolExists(ValueOf(node).sourceSymbols, symbol)
        THEN [st EXCEPT !.nodes =
                Push(@ (-) SetToBag({ValueOf(node)}),
                     [ValueOf(node) EXCEPT
                        !.sourceSymbols = Present(Append(SymbolsOf(@), symbol))])]
        ELSE st

\* the store after the source symbol part of _onEditorChange
WithSourceSymbol(st, hasRecentSymbol, lastContainingSymbol, prev) ==
    IF hasRecentSymbol /\ IsPresent(lastContainingSymbol) /\ prev # undefined
    THEN
        LET sourceNodeId == nodeIdOf[prev]
            sourceNode == FindById(st.nodes, sourceNodeId)
        IN  IF IsPresent(sourceNode)
               /\ ~SymbolExists(ValueOf(sourceNode).sourceSymbols,
                                ValueOf(lastContainingSymbol))
            THEN AddSourceSymbolToNode(st, sourceNodeId,
                                       ValueOf(lastContainingSymbol))
            ELSE st
    ELSE st

\* the words the cursor is put on: in Aa.ts an identifier inside a
\* declaration and a one-letter word, in y.ts an identifier outside any
\* declaration
CursorWords ==
    {[filePath |-> "/w/a/Aa.ts", word |-> "foo", line |-> 3],
     [filePath |-> "/w/a/Aa.ts", word |-> "x", line |-> 9],
     [filePath |-> "/w/b/y.ts", word |-> "baz", line |-> 2]}

\* what _findContainingSymbol resolves to for the position of a tracked
\* symbol, when the symbol provider answers
ContainingSymbol(symbol) ==
    IF symbol.filePath = "/w/a/Aa.ts" /\ symbol.line = 3
    THEN Present([name |-> "declFoo", line |-> 1, filePath |-> symbol.filePath])
    ELSE Absent

\* a step of the tracker that leaves the store alone
Tracked(op, arg, found, trk) ==
    /\ tracking' = trk
    /\ last' = [op |-> op, arg |-> arg, found |-> found, group |-> "none"]
    /\ UNCHANGED <<workspaceFiles, state, workspaceState, previousFilePath, view,
                   index, layout>>

\* onDidChangeTextEditorSelection, up to the await: an empty selection in the
\* focused editor, with the cursor on cursor.word
OnSelectionChange(cursor) ==
    /\ cursor.filePath = previousFilePath
    /\ LET symbol == [name |-> cursor.word, line |-> cursor.line,
                      filePath |-> cursor.filePath]
       IN  Tracked("onSelectionChange", cursor.word, IsIdentifier(cursor.word),
               IF IsIdentifier(cursor.word)
               THEN [tracking EXCEPT
                        !.lastTrackedSymbol = Present(symbol),
                        !.lastSymbolTimestamp = tracking.now,
                        !.lookups = @ \cup {symbol}]
               ELSE tracking)

\* _onSelectionChange after the await: _findContainingSymbol has resolved, to
\* the enclosing declaration or, when the provider fails or finds none, to
\* undefined
FindContainingSymbolResolves(lookup, answered) ==
    /\ lookup \in tracking.lookups
    /\ LET result == IF answered THEN ContainingSymbol(lookup) ELSE Absent
       IN  Tracked("findContainingSymbol", lookup.name, IsPresent(result),
               [tracking EXCEPT !.lastContainingSymbol = result,
                                !.lookups = @ \ {lookup}])

\* MsPerTick milliseconds pass
Tick ==
    /\ tracking.now < MaxTicks
    /\ Tracked("tick", "", FALSE, [tracking EXCEPT !.now = @ + 1])

-----------------------------------------------------------------------------
(* NavigationTracker: event handlers *)

\* the type of the group with that id in the store, "none" without such a group
GroupTypeIn(st, groupId) ==
    LET group == GetGroup(st, groupId)
    IN  IF IsPresent(group) THEN ValueOf(group).type ELSE "none"

\* the group the plugin of filePath has or would have, undefined outside plugins
GroupIdOfFile(filePath) ==
    IF IsPresent(pluginInfoOf[filePath])
    THEN GroupIdOf(ValueOf(pluginInfoOf[filePath]).runtimeId)
    ELSE undefined

\* the blob under STATE_KEY once a handler has left the store st: each operation
\* of StateManager that changes the store persists it, and clearState persists
\* the store it empties even when it was empty
PersistedBy(op, st) ==
    IF st # state \/ op \in {"clearGraphMessage", "clearGraphCommand"}
    THEN Present(st)
    ELSE workspaceState

\* _calculateNodePosition for a node of a group: the position relative to the
\* group.  (A node without a group is placed below all groups, at a position
\* that depends on the groups' positions.)
CalculateNodePosition(existingState, groupId) ==
    LET nodeIndex == Length(GetNodesInGroup(existingState, groupId))
    IN  [x |-> GROUP_PADDING,
         y |-> GROUP_HEADER_HEIGHT + nodeIndex * (NODE_HEIGHT + NODE_SPACING)
               + GROUP_PADDING]

\* the store's nodes before any file was opened, with their position field
InitialStack == [nodePositions |-> {}]

\* The position field of the nodes is kept beside the store, as the set
\* nodePositions of [id, groupId, position], in the specification that follows
\* it.  A handler that leaves the store st has dropped the positions of the
\* nodes it deleted and has given the node it added, if that node has a group,
\* the position _calculateNodePosition computes from the store the handler
\* started with.
PositionedBy(lay, existingState, st) ==
    IF "nodePositions" \in DOMAIN lay
    THEN [lay EXCEPT !.nodePositions =
            {e \in @ : HasId(st.nodes, e.id)}
            \cup {[id |-> n.id, groupId |-> n.groupId,
                   position |-> CalculateNodePosition(existingState, n.groupId)] :
                    n \in {m \in BagToSet(st.nodes) :
                             /\ ~HasId(existingState.nodes, m.id)
                             /\ m.groupId # undefined}}]
    ELSE lay

\* one handler has run: the store and previousFilePath it leaves
Stored(op, arg, found, groupId, st, prev) ==
    /\ state' = st
    /\ workspaceState' = PersistedBy(op, st)
    /\ previousFilePath' = prev
    /\ last' = [op |-> op, arg |-> arg, found |-> found,
                group |-> GroupTypeIn(state, groupId)]
    /\ layout' = PositionedBy(layout, state, st)
    /\ UNCHANGED <<workspaceFiles, view, index>>

\* the same for a handler that leaves the pending symbol alone
Handled(op, arg, found, groupId, st, prev) ==
    /\ Stored(op, arg, found, groupId, st, prev)
    /\ UNCHANGED tracking

\* the store after the node part of _onEditorChange (the file has no node yet)
WithNewNode(st, filePath, nodeId, navigatedSymbol) ==
    LET ensured == EnsureGroup(st, pluginInfoOf[filePath])
        finalGroupId == ensured.groupId
        newNode == [id |-> nodeId, filePath |-> filePath, groupId |-> finalGroupId,
                    symbols |-> IF IsPresent(navigatedSymbol)
                                THEN Present(<<ValueOf(navigatedSymbol)>>)
                                ELSE Absent,
                    sourceSymbols |-> Absent]
        st1 == AddNode(ensured.st, newNode)
    IN  IF finalGroupId # undefined THEN UpdateGroupSize(st1, finalGroupId) ELSE st1

\* an edge part that does not compare the previous file with the focused one
WithNavigationEdgeToSelf(st, prev, filePath, nodeId) ==
    IF prev # undefined
    THEN
        LET sourceId == nodeIdOf[prev]
            edgeId == sourceId \o "-" \o nodeId
            reverseEdgeId == nodeId \o "-" \o sourceId
            edgeExists ==
                Some(st.edges, LAMBDA e : e.id = edgeId \/ e.id = reverseEdgeId)
        IN  IF ~edgeExists
            THEN AddEdge(st, [id |-> edgeId, source |-> sourceId,
                              target |-> nodeId, edgeType |-> undefined])
            ELSE st
    ELSE st

\* the store after the edge part of _onEditorChange
WithNavigationEdge(st, prev, filePath, nodeId) ==
    IF prev # undefined /\ prev # filePath
    THEN
        LET sourceId == nodeIdOf[prev]
            targetId == nodeId
            edgeId == sourceId \o "-" \o targetId
            reverseEdgeId == targetId \o "-" \o sourceId
            edgeExists ==
                Some(st.edges, LAMBDA e : e.id = edgeId \/ e.id = reverseEdgeId)
            newEdge == [id |-> edgeId, source |-> sourceId, target |-> targetId,
                        edgeType |-> undefined]
        IN  IF ~edgeExists THEN AddEdge(st, newEdge) ELSE st
    ELSE st

\* onDidChangeActiveTextEditor with the editor of filePath
OnEditorChange(filePath) ==
    LET nodeId == nodeIdOf[filePath]
        existingNode == FindById(state.nodes, nodeId)
        nodeExists == IsPresent(existingNode)
        hasRecentSymbol == HasRecentSymbol(tracking, previousFilePath, filePath)
        navigatedSymbol == IF hasRecentSymbol THEN tracking.lastTrackedSymbol
                           ELSE Absent
        st1 == IF ~nodeExists
               THEN WithNewNode(state, filePath, nodeId, navigatedSymbol)
               ELSE IF IsPresent(navigatedSymbol)
                       /\ ~SymbolExists(ValueOf(existingNode).symbols,
                                        ValueOf(navigatedSymbol))
               THEN AddSymbolToNode(state, nodeId, ValueOf(navigatedSymbol))
               ELSE state
        st2 == WithSourceSymbol(st1, hasRecentSymbol,
                                tracking.lastContainingSymbol, previousFilePath)
        st3 == WithNavigationEdge(st2, previousFilePath, filePath, nodeId)
    IN  /\ Stored("onEditorChange", filePath, nodeExists, GroupIdOfFile(filePath),
                  st3, filePath)
        /\ tracking' = IF hasRecentSymbol
                       THEN [tracking EXCEPT !.lastTrackedSymbol = Absent,
                                             !.lastContainingSymbol = Absent]
                       ELSE tracking

\* what onDidChangeActiveTextEditor passes when no file is focused: no editor,
\* or the editor of a document whose scheme is not file
NonFileEditors == {"no editor", "output:tasks"}

\* onDidChangeActiveTextEditor without an editor or with a document that is
\* not a file: _onEditorChange returns at once
OnEditorChangeSkipped(editor) ==
    Handled("onEditorChange", editor, FALSE, undefined, state, previousFilePath)

\* onDidChangeTabs with the tab of filePath in event.closed
OnTabsChange(filePath) ==
    LET nodeId == nodeIdOf[filePath]
        node == FindById(state.nodes, nodeId)
        st1 ==
            IF IsPresent(node)
            THEN
                LET groupId == ValueOf(node).groupId
                    st == DeleteNode(state, nodeId)
                IN  IF groupId # undefined THEN UpdateGroupSize(st, groupId) ELSE st
            ELSE state
    IN  Handled("onTabsChange", filePath, IsPresent(node),
                IF IsPresent(node) THEN ValueOf(node).groupId ELSE undefined,
                st1, previousFilePath)

\* onDidCloseTextDocument with the document of filePath
OnDocumentClose(filePath) ==
    LET nodeId == nodeIdOf[filePath]
        node == FindById(state.nodes, nodeId)
    IN  IF IsPresent(node)
        THEN
            LET groupId == ValueOf(node).groupId
                st == DeleteNode(state, nodeId)
                st1 == IF groupId # undefined
                       THEN IF Length(GetNodesInGroup(st, groupId)) = 0
                            THEN RemoveEmptiedGroup(st, groupId)
                            ELSE UpdateGroupSize(st, groupId)
                       ELSE st
                prev == IF previousFilePath = filePath THEN undefined
                        ELSE previousFilePath
            IN  Handled("onDocumentClose", filePath, TRUE, groupId, st1, prev)
        ELSE Handled("onDocumentClose", filePath, FALSE, undefined,
                     state, previousFilePath)

\* a plugin branch that tops up the first plugin group only
RECURSIVE TopUpFirstGroupOnly(_, _, _)
TopUpFirstGroupOnly(st, pluginGroups, i) ==
    IF i > 1 \/ i > Len(pluginGroups) THEN st
    ELSE LET requiredPlugins == IF IsPresent(pluginGroups[i].requiredPlugins)
                                THEN ValueOf(pluginGroups[i].requiredPlugins)
                                ELSE <<>>
         IN  CreateDependencyGroups(st,
                SelectSeq(requiredPlugins,
                          LAMBDA dep : ~HasId(st.groups, GroupIdOf(dep))),
                pluginGroups[i].id)

\* the plugin branch of handleModeChange from plugin group i of pluginGroups on
RECURSIVE TopUpFrom(_, _, _)
TopUpFrom(st, pluginGroups, i) ==
    IF i > Len(pluginGroups) THEN st
    ELSE
        LET pluginGroup == pluginGroups[i]
            requiredPlugins == IF IsPresent(pluginGroup.requiredPlugins)
                               THEN ValueOf(pluginGroup.requiredPlugins)
                               ELSE <<>>
            missingDeps == SelectSeq(requiredPlugins,
                                     LAMBDA dep : ~HasId(st.groups, GroupIdOf(dep)))
            st1 == IF Len(requiredPlugins) > 0 /\ Len(missingDeps) > 0
                   THEN CreateDependencyGroups(st, missingDeps, pluginGroup.id)
                   ELSE st
        IN  TopUpFrom(st1, pluginGroups, i + 1)

\* a journey branch that deletes the first group of the list only
RECURSIVE DeleteFirstGroupOnly(_, _, _)
DeleteFirstGroupOnly(st, groupList, i) ==
    IF i > 1 \/ i > Len(groupList) THEN st
    ELSE DeleteGroup(st, groupList[i].id)

\* the journey branch of handleModeChange: delete the groups of the list, from i on
RECURSIVE DeleteGroupsFrom(_, _, _)
DeleteGroupsFrom(st, groupList, i) ==
    IF i > Len(groupList) THEN st
    ELSE DeleteGroupsFrom(DeleteGroup(st, groupList[i].id), groupList, i + 1)

ViewModes == {"journey", "plugin", "complete", "3d"}

\* handleModeChange; found tells whether it had a group to add or to delete
HandleModeChange(newMode) ==
    IF newMode = "plugin"
    THEN \E pluginGroups \in
                Orderings(Filter(state.groups, LAMBDA g : g.type = "plugin")) :
            LET st == TopUpFrom(state, pluginGroups, 1)
            IN  Handled("handleModeChange", newMode, st # state, undefined,
                        st, previousFilePath)
    ELSE IF newMode = "journey"
    THEN \E emptyDependencyGroups \in
                Orderings(Filter(state.groups,
                                 LAMBDA g : /\ g.type = "dependency"
                                            /\ Length(GetNodesInGroup(state, g.id)) = 0)) :
            Handled("handleModeChange", newMode, Len(emptyDependencyGroups) > 0,
                    undefined,
                    DeleteGroupsFrom(state, emptyDependencyGroups, 1),
                    previousFilePath)
    ELSE Handled("handleModeChange", newMode, FALSE, undefined, state, previousFilePath)

-----------------------------------------------------------------------------
(* PathfinderViewProvider and the extension's commands *)

\* the webview message deleteNode
HandleDeleteNode(nodeId) ==
    LET nodeToDelete == FindById(state.nodes, nodeId)
        groupId == IF IsPresent(nodeToDelete) THEN ValueOf(nodeToDelete).groupId
                   ELSE undefined
        st == DeleteNode(state, nodeId)
        st1 == IF groupId # undefined /\ Length(GetNodesInGroup(st, groupId)) = 0
               THEN RemoveEmptiedGroup(st, groupId)
               ELSE st
    IN  Handled("deleteNode", nodeId, IsPresent(nodeToDelete), groupId,
                st1, previousFilePath)

\* the webview message clearGraph
HandleClearGraph ==
    Handled("clearGraphMessage", "", FALSE, undefined, ClearState, previousFilePath)

\* the command pathfinder.clearGraph
ClearGraphCommand ==
    Handled("clearGraphCommand", "", FALSE, undefined, ClearState, previousFilePath)

-----------------------------------------------------------------------------
(* The webview: App's state and PathfinderGraph's projection *)

\* The arrays of the webview are sequences: App keeps their order, and the
\* projection walks them in order.  Of a node, an edge and a group only the
\* fields the projection reads are kept.

\* what App and PathfinderGraph hold when the webview is mounted
InitialView ==
    [nodes |-> <<>>, edges |-> <<>>, groups |-> <<>>, viewMode |-> "journey",
     allPlugins |-> <<>>, completeGroups |-> <<>>, hasCalculatedLayout |-> FALSE]

\* new Set(items.map((x) => x.id))
IdsOf(items) == {items[i].id : i \in DOMAIN items}

\* the edge completeEdges builds for plugin and one of its requiredPlugins
CompleteEdge(plugin, depRuntimeId) ==
    [id |-> "dep-" \o GroupIdOf(depRuntimeId) \o "-" \o GroupIdOf(plugin.runtimeId),
     source |-> GroupIdOf(depRuntimeId),
     target |-> GroupIdOf(plugin.runtimeId),
     edgeType |-> "dependency"]

\* the two loops of completeEdges, from plugin p and its d-th required plugin
RECURSIVE CompleteEdgesFrom(_, _, _, _)
CompleteEdgesFrom(allPlugins, inputEdges, p, d) ==
    IF p > Len(allPlugins) THEN <<>>
    ELSE IF d > Len(allPlugins[p].requiredPlugins)
    THEN CompleteEdgesFrom(allPlugins, inputEdges, p + 1, 1)
    ELSE LET depRuntimeId == allPlugins[p].requiredPlugins[d]
             edge == CompleteEdge(allPlugins[p], depRuntimeId)
             targetExists ==
                 \E i \in DOMAIN allPlugins : allPlugins[i].runtimeId = depRuntimeId
         IN  (IF edge.id \in IdsOf(inputEdges) \/ ~targetExists
              THEN <<>> ELSE <<edge>>)
             \o CompleteEdgesFrom(allPlugins, inputEdges, p, d + 1)

CompleteEdges(v) ==
    IF v.viewMode # "complete" \/ Len(v.allPlugins) = 0
    THEN <<>>
    ELSE CompleteEdgesFrom(v.allPlugins, v.edges, 1, 1)

\* the groups the layout timeout builds: one for each plugin that has no
\* stored group when it fires
LaidOutGroups(allPlugins, inputGroups) ==
    LET missing == SelectSeq(allPlugins,
            LAMBDA plugin : GroupIdOf(plugin.runtimeId) \notin IdsOf(inputGroups))
    IN  [i \in DOMAIN missing |->
            [id |-> GroupIdOf(missing[i].runtimeId), type |-> "dependency"]]

\* the two effects of PathfinderGraph that follow a render: outside complete
\* mode the layout flag is reset, and outside complete mode or without a
\* plugin list the laid out groups are dropped
AfterEffects(v) ==
    [v EXCEPT
        !.hasCalculatedLayout = IF v.viewMode # "complete" THEN FALSE ELSE @,
        !.completeGroups =
            IF v.viewMode # "complete" \/ Len(v.allPlugins) = 0 THEN <<>> ELSE @]

\* a filter whose journey branch returns the stored groups as they are
FilteredGroupsUnfiltered(v) ==
    IF v.viewMode = "complete"
    THEN v.groups
         \o SelectSeq(v.completeGroups, LAMBDA g : g.id \notin IdsOf(v.groups))
    ELSE v.groups

FilteredGroups(v) ==
    IF v.viewMode = "journey"
    THEN SelectSeq(v.groups, LAMBDA g : g.type = "plugin")
    ELSE IF v.viewMode = "complete"
    THEN v.groups
         \o SelectSeq(v.completeGroups, LAMBDA g : g.id \notin IdsOf(v.groups))
    ELSE v.groups

ValidNodeIds(v) == IdsOf(v.nodes) \cup IdsOf(FilteredGroups(v))

HasValidEndpoints(v, edge) ==
    edge.source \in ValidNodeIds(v) /\ edge.target \in ValidNodeIds(v)

IsDependencyEdge(edge) ==
    \/ edge.edgeType = "dependency"
    \/ StartsWith(edge.id, "dep-")
    \/ StartsWith(edge.source, "group-") /\ StartsWith(edge.target, "group-")

\* the loop of the complete branch: the first edge of each id, if its
\* endpoints are valid
RECURSIVE UniqueEdges(_, _, _)
UniqueEdges(v, allEdges, seenIds) ==
    IF allEdges = <<>> THEN <<>>
    ELSE LET edge == Head(allEdges)
         IN  IF edge.id \notin seenIds /\ HasValidEndpoints(v, edge)
             THEN <<edge>> \o UniqueEdges(v, Tail(allEdges), seenIds \cup {edge.id})
             ELSE UniqueEdges(v, Tail(allEdges), seenIds)

\* a filter whose plugin branch returns the stored edges as they are
FilteredEdgesUnchecked(v) ==
    IF v.viewMode = "journey"
    THEN SelectSeq(v.edges,
            LAMBDA edge : ~IsDependencyEdge(edge) /\ HasValidEndpoints(v, edge))
    ELSE IF v.viewMode = "complete"
    THEN UniqueEdges(v, v.edges \o CompleteEdges(v), {})
    ELSE v.edges

FilteredEdges(v) ==
    IF v.viewMode = "journey"
    THEN SelectSeq(v.edges,
            LAMBDA edge : ~IsDependencyEdge(edge) /\ HasValidEndpoints(v, edge))
    ELSE IF v.viewMode = "complete"
    THEN UniqueEdges(v, v.edges \o CompleteEdges(v), {})
    ELSE SelectSeq(v.edges, LAMBDA edge : HasValidEndpoints(v, edge))

\* App has handled a message or a click and PathfinderGraph has rendered
Rendered(op, arg, v) ==
    /\ view' = AfterEffects(v)
    /\ last' = [op |-> op, arg |-> arg, found |-> FALSE, group |-> "none"]
    /\ UNCHANGED <<workspaceFiles, state, workspaceState, previousFilePath, tracking,
                   index, layout>>

MessageAddNode(node) ==
    Rendered("addNode", node,
        IF node.id \in IdsOf(view.nodes) THEN view
        ELSE [view EXCEPT !.nodes = Append(@, node)])

MessageAddEdge(edge) ==
    Rendered("addEdge", edge,
        IF edge.id \in IdsOf(view.edges) THEN view
        ELSE [view EXCEPT !.edges = Append(@, edge)])

MessageAddGroup(group) ==
    Rendered("addGroup", group,
        IF group.id \in IdsOf(view.groups) THEN view
        ELSE [view EXCEPT !.groups = Append(@, group)])

MessageUpdateGroup(group) ==
    Rendered("updateGroup", group,
        [view EXCEPT !.groups =
            [i \in DOMAIN @ |-> IF @[i].id = group.id THEN group ELSE @[i]]])

\* viewMode of the loaded state: absent, or the mode to restore
MessageLoadState(st) ==
    Rendered("loadState", st,
        [view EXCEPT !.nodes = st.nodes, !.edges = st.edges, !.groups = st.groups,
                     !.viewMode = IF st.viewMode = undefined THEN @
                                  ELSE IF st.viewMode = "3d" THEN "journey"
                                  ELSE st.viewMode])

RemoveNode(v, nodeId) ==
    [v EXCEPT !.nodes = SelectSeq(@, LAMBDA n : n.id # nodeId),
              !.edges = SelectSeq(@,
                  LAMBDA e : e.source # nodeId /\ e.target # nodeId)]

MessageRemoveNode(nodeId) ==
    Rendered("removeNode", nodeId, RemoveNode(view, nodeId))

MessageRemoveGroup(groupId) ==
    Rendered("removeGroup", groupId,
        [view EXCEPT !.groups = SelectSeq(@, LAMBDA g : g.id # groupId)])

MessageAllPlugins(plugins) ==
    Rendered("allPlugins", plugins, [view EXCEPT !.allPlugins = plugins])

Cleared(v) == [v EXCEPT !.nodes = <<>>, !.edges = <<>>, !.groups = <<>>]

MessageClear == Rendered("clear", "", Cleared(view))

AppHandleNodeDelete(nodeId) ==
    Rendered("handleNodeDelete", nodeId, RemoveNode(view, nodeId))

AppHandleClear == Rendered("handleClear", "", Cleared(view))

AppHandleModeChange(newMode) ==
    Rendered("handleModeChange", newMode, [view EXCEPT !.viewMode = newMode])

\* the timeout of the layout effect fires, 50 ms after the last render that
\* changed viewMode, allPlugins, completeEdges or the stored groups; a render
\* that changes one of them before it fires replaces it by a new one
LayoutTimeout ==
    /\ view.viewMode = "complete"
    /\ Len(view.allPlugins) > 0
    /\ ~view.hasCalculatedLayout
    /\ Rendered("layoutTimeout", "",
        [view EXCEPT !.completeGroups = LaidOutGroups(view.allPlugins, view.groups),
                     !.hasCalculatedLayout = TRUE])

-----------------------------------------------------------------------------
(* webview: resolveCollisions *)

\* Coordinates and sizes are whole numbers of units, PerPixel units to the
\* pixel.  Every half the code takes is taken by Half, which has no value when
\* the half is not a whole number of units, so the whole numbers computed here
\* are the numbers the floating point arithmetic computes.
PerPixel == 1024

Half(v) == CHOOSE h \in {v \div 2} : 2 * h = v

Min(a, b) == IF a <= b THEN a ELSE b

Abs(v) == IF v < 0 THEN 0 - v ELSE v

\* the defaults of ResolveCollisionsOptions; a whole number of units is above
\* overlapThreshold (0.1 pixel) exactly when it is above DefaultOverlapThreshold
DefaultMaxIterations == 50
DefaultOverlapThreshold == PerPixel \div 10
DefaultMargin == 10 * PerPixel

\* width and height of a node that carries none
DefaultRectWidth == 200 * PerPixel
DefaultRectHeight == 100 * PerPixel

\* a parentId that is falsy: undefined or the empty string
NoParent == ""

\* the NodeRect of a node; measured, style and own width are one optional field
NodeRect(node) ==
    [id |-> node.id,
     x |-> node.position.x,
     y |-> node.position.y,
     width |-> IF IsPresent(node.width) THEN ValueOf(node.width)
               ELSE DefaultRectWidth,
     height |-> IF IsPresent(node.height) THEN ValueOf(node.height)
                ELSE DefaultRectHeight,
     parentId |-> node.parentId]

GetOverlap(rectA, rectB, margin) ==
    LET overlapX == Min(rectA.x + rectA.width + margin - rectB.x,
                        rectB.x + rectB.width + margin - rectA.x)
        overlapY == Min(rectA.y + rectA.height + margin - rectB.y,
                        rectB.y + rectB.height + margin - rectA.y)
    IN  IF overlapX <= 0 \/ overlapY <= 0
        THEN [x |-> 0, y |-> 0]
        ELSE [x |-> overlapX, y |-> overlapY]

\* the condition under which resolveNodeCollisions treats a pair as colliding
Collide(rectA, rectB, overlapThreshold, margin) ==
    LET overlap == GetOverlap(rectA, rectB, margin)
    IN  overlap.x > overlapThreshold \/ overlap.y > overlapThreshold

\* a push that moves rects[i] alone, by the whole distance
PushedFirstOnly(rects, i, j, margin) ==
    LET rectA == rects[i]
        rectB == rects[j]
        overlap == GetOverlap(rectA, rectB, margin)
        dx == (rectB.x + Half(rectB.width)) - (rectA.x + Half(rectA.width))
        dy == (rectB.y + Half(rectB.height)) - (rectA.y + Half(rectA.height))
    IN  IF Abs(overlap.x) < Abs(overlap.y)
        THEN IF dx >= 0
             THEN [rects EXCEPT ![i].x = @ - (overlap.x + margin)]
             ELSE [rects EXCEPT ![i].x = @ + (overlap.x + margin)]
        ELSE IF dy >= 0
             THEN [rects EXCEPT ![i].y = @ - (overlap.y + margin)]
             ELSE [rects EXCEPT ![i].y = @ + (overlap.y + margin)]

\* the body of the test on a colliding pair: both rectangles are pushed
PushedApart(rects, i, j, margin) ==
    LET rectA == rects[i]
        rectB == rects[j]
        overlap == GetOverlap(rectA, rectB, margin)
        dx == (rectB.x + Half(rectB.width)) - (rectA.x + Half(rectA.width))
        dy == (rectB.y + Half(rectB.height)) - (rectA.y + Half(rectA.height))
    IN  IF Abs(overlap.x) < Abs(overlap.y)
        THEN LET pushX == Half(overlap.x + margin)
             IN  IF dx >= 0
                 THEN [rects EXCEPT ![i].x = @ - pushX, ![j].x = @ + pushX]
                 ELSE [rects EXCEPT ![i].x = @ + pushX, ![j].x = @ - pushX]
        ELSE LET pushY == Half(overlap.y + margin)
             IN  IF dy >= 0
                 THEN [rects EXCEPT ![i].y = @ - pushY, ![j].y = @ + pushY]
                 ELSE [rects EXCEPT ![i].y = @ + pushY, ![j].y = @ - pushY]

\* the two for loops of one iteration, from the pair (i, j) on;
\* pass is [rects, hasCollisions]
RECURSIVE PairsFrom(_, _, _, _, _)
PairsFrom(pass, i, j, overlapThreshold, margin) ==
    IF i > Len(pass.rects) THEN pass
    ELSE IF j > Len(pass.rects)
    THEN PairsFrom(pass, i + 1, i + 2, overlapThreshold, margin)
    ELSE IF Collide(pass.rects[i], pass.rects[j], overlapThreshold, margin)
    THEN PairsFrom([rects |-> PushedApart(pass.rects, i, j, margin),
                    hasCollisions |-> TRUE],
                   i, j + 1, overlapThreshold, margin)
    ELSE PairsFrom(pass, i, j + 1, overlapThreshold, margin)

\* a while loop that goes on for as long as a sweep has found a collision
RECURSIVE IterationsUncapped(_, _, _, _, _)
IterationsUncapped(pass, iterations, maxIterations, overlapThreshold, margin) ==
    IF pass.hasCollisions
    THEN IterationsUncapped(PairsFrom([rects |-> pass.rects,
                                       hasCollisions |-> FALSE],
                                      1, 2, overlapThreshold, margin),
                            iterations + 1, maxIterations, overlapThreshold,
                            margin)
    ELSE [rects |-> pass.rects, hasCollisions |-> pass.hasCollisions,
          iterations |-> iterations]

\* the while loop, from iteration number iterations + 1 on; its value is the
\* three variables of the function when the loop is left
RECURSIVE IterationsFrom(_, _, _, _, _)
IterationsFrom(pass, iterations, maxIterations, overlapThreshold, margin) ==
    IF pass.hasCollisions /\ iterations < maxIterations
    THEN IterationsFrom(PairsFrom([rects |-> pass.rects, hasCollisions |-> FALSE],
                                  1, 2, overlapThreshold, margin),
                        iterations + 1, maxIterations, overlapThreshold, margin)
    ELSE [rects |-> pass.rects, hasCollisions |-> pass.hasCollisions,
          iterations |-> iterations]

\* the rects after resolveNodeCollisions has moved them in place
ResolveNodeCollisions(rects, maxIterations, overlapThreshold, margin) ==
    IterationsFrom([rects |-> rects, hasCollisions |-> TRUE], 0,
                   maxIterations, overlapThreshold, margin).rects

\* the keys of parentGroups, in insertion order
RECURSIVE ParentIdsOf(_, _)
ParentIdsOf(childNodes, seen) ==
    IF childNodes = <<>> THEN seen
    ELSE ParentIdsOf(Tail(childNodes),
                     IF Includes(seen, Head(childNodes).parentId) THEN seen
                     ELSE Append(seen, Head(childNodes).parentId))

\* parentGroups.forEach: the resolved rects of every parent group, joined
RECURSIVE ResolveGroups(_, _, _, _, _)
ResolveGroups(parentIds, childNodes, maxIterations, overlapThreshold, margin) ==
    IF parentIds = <<>> THEN <<>>
    ELSE ResolveNodeCollisions(
             SelectSeq(childNodes, LAMBDA n : n.parentId = Head(parentIds)),
             maxIterations, overlapThreshold, margin)
         \o ResolveGroups(Tail(parentIds), childNodes,
                          maxIterations, overlapThreshold, margin)

\* rectMap.get(id): the last rect set under the id
RectOf(rects, id) ==
    LET at == {i \in 1..Len(rects) : rects[i].id = id}
    IN  IF at = {} THEN Absent
        ELSE Present(rects[CHOOSE i \in at : \A k \in at : k <= i])

\* nodes.map: every node, at the position of its rect
Repositioned(nodes, rects) ==
    [k \in 1..Len(nodes) |->
        LET rect == RectOf(rects, nodes[k].id)
        IN  IF /\ IsPresent(rect)
               /\ \/ ValueOf(rect).x # nodes[k].position.x
                  \/ ValueOf(rect).y # nodes[k].position.y
            THEN [nodes[k] EXCEPT !.position = [x |-> ValueOf(rect).x,
                                                y |-> ValueOf(rect).y]]
            ELSE nodes[k]]

\* a resolution that separates all rectangles from each other, whatever their
\* parent
ResolveCollisionsAcrossParents(nodes, maxIterations, overlapThreshold, margin) ==
    Repositioned(nodes,
        ResolveNodeCollisions([k \in 1..Len(nodes) |-> NodeRect(nodes[k])],
                              maxIterations, overlapThreshold, margin))

ResolveCollisions(nodes, maxIterations, overlapThreshold, margin) ==
    LET nodeRects == [k \in 1..Len(nodes) |-> NodeRect(nodes[k])]
        topLevelNodes == SelectSeq(nodeRects, LAMBDA n : n.parentId = NoParent)
        childNodes == SelectSeq(nodeRects, LAMBDA n : n.parentId # NoParent)
        resolvedTop == ResolveNodeCollisions(topLevelNodes, maxIterations,
                                             overlapThreshold, margin)
        resolvedChildren == ResolveGroups(ParentIdsOf(childNodes, <<>>),
                                          childNodes, maxIterations,
                                          overlapThreshold, margin)
    IN  Repositioned(nodes, resolvedTop \o resolvedChildren)

\* the layout passes of the webview before any of them has run
InitialLayout == [nodes |-> <<>>, result |-> Absent]

\* a layout pass has run
LaidOut(op, arg, lay) ==
    /\ layout' = lay
    /\ last' = [op |-> op, arg |-> arg, found |-> FALSE, group |-> "none"]
    /\ UNCHANGED <<workspaceFiles, state, workspaceState, previousFilePath, view,
                   tracking, index>>

\* resolveCollisions(nodes) with the default options
ResolveCollisionsCalled ==
    /\ layout.result = Absent
    /\ LaidOut("resolveCollisions", layout.nodes,
               [layout EXCEPT !.result =
                    Present(ResolveCollisions(layout.nodes, DefaultMaxIterations,
                                              DefaultOverlapThreshold,
                                              DefaultMargin))])

\* the layout pass of a caller that passes its own maxIterations
InitialSweeps(nodes, maxIterations) ==
    [nodes |-> nodes, maxIterations |-> maxIterations, result |-> Absent]

\* resolveCollisions(nodes, {maxIterations})
ResolveCollisionsWithOptions ==
    /\ layout.result = Absent
    /\ LaidOut("resolveCollisions", layout.nodes,
               [layout EXCEPT !.result =
                    Present(ResolveCollisions(layout.nodes, layout.maxIterations,
                                              DefaultOverlapThreshold,
                                              DefaultMargin))])

-----------------------------------------------------------------------------
(* webview: forceLayoutWorker *)

COLS == 8

\* Math.ceil(Math.sqrt(n))
CeilSqrt(n) == CHOOSE c \in 0..n : c * c >= n /\ \A d \in 0..(c - 1) : d * d < n

\* Math.ceil(a / b)
CeilDiv(a, b) == (a + b - 1) \div b

\* the entries of the fallback of self.onmessage: the nodes on a grid of COLS
\* columns; an entry [id, position] is a record of key and value
FallbackPositions(nodes) ==
    [k \in 1..Len(nodes) |->
        LET nodeIndex == k - 1
            col == nodeIndex % COLS
            row == nodeIndex \div COLS
        IN  [key |-> nodes[k].id,
             value |-> [x |-> col * (nodes[k].width + 50) + 50,
                        y |-> row * (nodes[k].height + 50) + 50]]]

\* forceNodes: the nodes on the initial grid around the center
ForceNodes(nodes, spacing, centerX, centerY) ==
    LET numNodes == Len(nodes)
        cols == CeilSqrt(numNodes)
        startX == centerX - Half(cols * spacing)
        startY == centerY - Half(CeilDiv(numNodes, cols) * spacing)
    IN  [k \in 1..numNodes |->
            [id |-> nodes[k].id,
             width |-> nodes[k].width,
             height |-> nodes[k].height,
             x |-> startX + ((k - 1) % cols) * spacing,
             y |-> startY + ((k - 1) \div cols) * spacing]]

\* the links handed to the simulation: the edges between requested nodes
ForceLinks(nodes, edges) ==
    SelectSeq(edges, LAMBDA edge :
        /\ \E k \in DOMAIN nodes : nodes[k].id = edge.source
        /\ \E k \in DOMAIN nodes : nodes[k].id = edge.target)

\* What the ticks of the d3-force simulation do is not decided by this
\* repository: the simulation throws (an Error with a message, or another
\* value), or it leaves the nodes where a drift along the links has carried
\* them: each node by the drift for every link that ends at it.
SimulationOutcomes ==
    {[throws |-> FALSE, thrown |-> "", drift |-> d] : d \in {0, 40}}
    \cup {[throws |-> TRUE, thrown |-> t, drift |-> 0] :
            t \in {"Error: node not found", "not an Error"}}

Simulated(forceNodes, forceLinks, outcome) ==
    [k \in DOMAIN forceNodes |->
        LET links == {l \in DOMAIN forceLinks :
                        \/ forceLinks[l].source = forceNodes[k].id
                        \/ forceLinks[l].target = forceNodes[k].id}
        IN  [forceNodes[k] EXCEPT !.x = @ + outcome.drift * Cardinality(links),
                                  !.y = @ - outcome.drift * Cardinality(links)]]

\* forceNodes.forEach of calculateLayout, from node k on
RECURSIVE ExtractedFrom(_, _, _)
ExtractedFrom(positions, forceNodes, k) ==
    IF k > Len(forceNodes) THEN positions
    ELSE ExtractedFrom(
             MapSet(positions, forceNodes[k].id,
                    [x |-> forceNodes[k].x - Half(forceNodes[k].width),
                     y |-> forceNodes[k].y - Half(forceNodes[k].height)]),
             forceNodes, k + 1)

\* the Map calculateLayout returns when the simulation does not throw
CalculateLayout(nodes, edges, outcome) ==
    IF Len(nodes) = 0 THEN <<>>
    ELSE ExtractedFrom(<<>>,
                       Simulated(ForceNodes(nodes, 250, 5000, 5000),
                                 ForceLinks(nodes, edges), outcome),
                       1)

\* error instanceof Error ? error.message : 'Unknown error'
ErrorText(thrown) ==
    IF StartsWith(thrown, "Error: ")
    THEN SubSeq(thrown, Len("Error: ") + 1, Len(thrown))
    ELSE "Unknown error"

\* a handler whose catch block posts nothing and throws again
RepliesWithoutFallback(data, outcome) ==
    IF outcome.throws /\ Len(data.nodes) > 0
    THEN [posted |-> <<>>, escaped |-> TRUE]
    ELSE [posted |-> <<[positions |-> CalculateLayout(data.nodes, data.edges,
                                                      outcome),
                        error |-> Absent]>>,
          escaped |-> FALSE]

\* self.onmessage: the messages the handler posts for event.data, and whether
\* an exception leaves it
Replies(data, outcome) ==
    IF outcome.throws /\ Len(data.nodes) > 0
    THEN [posted |-> <<[positions |-> FallbackPositions(data.nodes),
                        error |-> Present(ErrorText(outcome.thrown))]>>,
          escaped |-> FALSE]
    ELSE [posted |-> <<[positions |-> CalculateLayout(data.nodes, data.edges,
                                                      outcome),
                        error |-> Absent]>>,
          escaped |-> FALSE]

\* most layout requests a session sends to the worker
MaxRequests == 2

\* the worker before its first message: the numbers of requests handled, of
\* messages posted and of exceptions that left the handler, and the last
\* request with the messages posted for it
InitialWorker ==
    [requests |-> 0, posted |-> 0, escaped |-> 0, data |-> Absent,
     replies |-> <<>>]

\* the worker handles a layout request
OnMessage(data, outcome) ==
    /\ layout.requests < MaxRequests
    /\ LET replies == Replies(data, outcome)
       IN  LaidOut("onmessage", outcome,
                   [requests |-> layout.requests + 1,
                    posted |-> layout.posted + Len(replies.posted),
                    escaped |-> layout.escaped
                                + (IF replies.escaped THEN 1 ELSE 0),
                    data |-> Present(data),
                    replies |-> replies.posted])

-----------------------------------------------------------------------------
(* NavigationTracker: the grid of dependency groups *)

GRID_GAP_X == 20
GRID_GAP_Y == 15
GRID_COLUMNS == 5
GRID_TOP_MARGIN == 40

\* depX and depY of requiredPlugins[depIndex + 1], one of numDeps
DependencyPosition(mainGroupPosition, numDeps, depIndex) ==
    LET numRows == CeilDiv(numDeps, GRID_COLUMNS)
        actualColumns == Min(numDeps, GRID_COLUMNS)
        gridWidth == actualColumns * DEP_WIDTH + (actualColumns - 1) * GRID_GAP_X
        gridStartX == mainGroupPosition.x + Half(MainGroupWidth - gridWidth)
        gridStartY == mainGroupPosition.y + MainGroupHeight + GRID_TOP_MARGIN
        row == depIndex \div GRID_COLUMNS
        col == depIndex % GRID_COLUMNS
        itemsInThisRow == IF row = numRows - 1 THEN numDeps - row * GRID_COLUMNS
                          ELSE GRID_COLUMNS
        rowOffset == IF row = numRows - 1
                     THEN Half((GRID_COLUMNS - itemsInThisRow)
                               * (DEP_WIDTH + GRID_GAP_X))
                     ELSE 0
    IN  [x |-> gridStartX + col * (DEP_WIDTH + GRID_GAP_X) + rowOffset,
         y |-> gridStartY + row * (DEP_HEIGHT + GRID_GAP_Y)]

\* the dependency groups _createDependencyGroups adds, with their positions:
\* one for every required plugin whose group is not among the existing ones
PositionedDependencyGroups(requiredPlugins, mainGroupPosition, existing) ==
    LET at == [k \in 1..Len(requiredPlugins) |->
                [id |-> GroupIdOf(requiredPlugins[k]),
                 position |-> DependencyPosition(mainGroupPosition,
                                                 Len(requiredPlugins), k - 1),
                 width |-> DEP_WIDTH,
                 height |-> DEP_HEIGHT]]
    IN  SelectSeq(at, LAMBDA g : g.id \notin existing)

\* the grids before _createDependencyGroups has run: the position of the main
\* group, the plugins it requires, the ids of the stored groups, and no
\* dependency groups yet
InitialGrid(mainGroupPosition, requiredPlugins, existing) ==
    [mainGroupPosition |-> mainGroupPosition,
     requiredPlugins |-> requiredPlugins,
     existing |-> existing,
     added |-> Absent]

\* _createDependencyGroups(requiredPlugins, mainGroupPosition, mainGroupId)
CreateDependencyGroupsCalled ==
    /\ layout.added = Absent
    /\ LaidOut("createDependencyGroups", layout.requiredPlugins,
               [layout EXCEPT !.added =
                    Present(PositionedDependencyGroups(layout.requiredPlugins,
                                                       layout.mainGroupPosition,
                                                       layout.existing))])

-----------------------------------------------------------------------------
(* webview: the positions of complete mode *)

GROUP_WIDTH == 180
GROUP_HEIGHT == 50

\* calculateForceDirectedLayout of PathfinderGraph.  d3-force computes the
\* same positions for the same nodes and links, and its link force moves the
\* nodes a link joins.
CalculateForceDirectedLayout(nodes, edges) ==
    IF Len(nodes) = 0 THEN <<>>
    ELSE ExtractedFrom(<<>>,
                       Simulated(ForceNodes(nodes, 350, 4000, 4000),
                                 ForceLinks(nodes, edges),
                                 [throws |-> FALSE, thrown |-> "", drift |-> 40]),
                       1)

\* positions.forEach((pos, id) => completePositionsRef.current.set(id, pos)),
\* from entry k on
RECURSIVE CachedFrom(_, _, _)
CachedFrom(completePositions, positions, k) ==
    IF k > Len(positions) THEN completePositions
    ELSE CachedFrom(MapSet(completePositions, positions[k].key,
                           positions[k].value),
                    positions, k + 1)

\* completePositionsRef after the layout timeout has stored the positions
CachePositions(completePositions, positions) ==
    CachedFrom(completePositions, positions, 1)

\* completePositionsRef when PathfinderGraph is mounted
InitialPositions == [completePositions |-> <<>>]

\* the position at which complete mode shows the group: filteredGroups gives a
\* stored group its cached position, and a laid out group has the position the
\* layout timeout cached for it
ShownAt(lay, groupId) == MapGet(lay.completePositions, groupId)

\* the timeout of the layout effect fires: all plugins are laid out, the
\* positions are cached, and the groups of the plugins without a stored group
\* are built
CompleteLayoutTimeout ==
    /\ view.viewMode = "complete"
    /\ Len(view.allPlugins) > 0
    /\ ~view.hasCalculatedLayout
    /\ LET layoutNodes ==
               [i \in DOMAIN view.allPlugins |->
                   [id |-> GroupIdOf(view.allPlugins[i].runtimeId),
                    width |-> GROUP_WIDTH, height |-> GROUP_HEIGHT]]
           layoutEdges == CompleteEdges(view)
           positions == CalculateForceDirectedLayout(layoutNodes, layoutEdges)
       IN  /\ layout' = [layout EXCEPT !.completePositions =
                            CachePositions(@, positions)]
           /\ view' = AfterEffects(
                [view EXCEPT !.completeGroups =
                                 LaidOutGroups(view.allPlugins, view.groups),
                             !.hasCalculatedLayout = TRUE])
    /\ last' = [op |-> "layoutTimeout", arg |-> "", found |-> FALSE,
                group |-> "none"]
    /\ UNCHANGED <<workspaceFiles, state, workspaceState, previousFilePath,
                   tracking, index>>

-----------------------------------------------------------------------------
(* The extension and the webview exchanging messages *)

\* Webview.postMessage and acquireVsCodeApi().postMessage deliver later, each
\* direction in the order of posting: the messages posted and not yet handled
\* are two queues.  hasView, isReady and pendingMessages are _view, _isReady
\* and _pendingMessages of the view provider.
UnresolvedChannels ==
    [toWebview |-> <<>>, toExtension |-> <<>>, hasView |-> FALSE,
     isReady |-> FALSE, pendingMessages |-> <<>>]

\* the view is resolved and its webview has said that it is ready
InitialChannels == [UnresolvedChannels EXCEPT !.hasView = TRUE, !.isReady = TRUE]

\* a _postMessage that posts to a ready webview and keeps no other message
PostMessageDropping(lay, message) ==
    IF lay.hasView /\ lay.isReady
    THEN [lay EXCEPT !.toWebview = Append(@, message)]
    ELSE lay

\* _postMessage
PostMessage(lay, message) ==
    IF lay.hasView /\ lay.isReady
    THEN [lay EXCEPT !.toWebview = Append(@, message)]
    ELSE [lay EXCEPT !.pendingMessages = Append(@, message)]

\* this._pendingMessages.forEach((msg) => this._postMessage(msg)), from
\* message i on
RECURSIVE PostedFrom(_, _, _)
PostedFrom(lay, messages, i) ==
    IF i > Len(messages) THEN lay
    ELSE PostedFrom(PostMessage(lay, messages[i]), messages, i + 1)

\* the array the extension stores for an array of the webview
ArrayOf(items) ==
    [x \in {items[i] : i \in DOMAIN items} |->
        Cardinality({i \in DOMAIN items : items[i] = x})]

\* the StateManager call the extension makes before it posts the message
MutatedBy(st, message) ==
    CASE message.type = "addNode" -> AddNode(st, message.item)
      [] message.type = "addEdge" -> AddEdge(st, message.item)
      [] message.type = "addGroup" -> AddGroup(st, message.item)
      [] message.type = "removeNode" -> DeleteNode(st, message.item.id)
      [] message.type = "removeGroup" -> DeleteGroup(st, message.item.id)

\* the arrays of App after handleMessage
Reduced(v, message) ==
    CASE message.type = "addNode" ->
            IF message.item.id \in IdsOf(v.nodes) THEN v
            ELSE [v EXCEPT !.nodes = Append(@, message.item)]
      [] message.type = "addEdge" ->
            IF message.item.id \in IdsOf(v.edges) THEN v
            ELSE [v EXCEPT !.edges = Append(@, message.item)]
      [] message.type = "addGroup" ->
            IF message.item.id \in IdsOf(v.groups) THEN v
            ELSE [v EXCEPT !.groups = Append(@, message.item)]
      [] message.type = "removeNode" -> RemoveNode(v, message.item.id)
      [] message.type = "removeGroup" ->
            [v EXCEPT !.groups = SelectSeq(@, LAMBDA g : g.id # message.item.id)]
      [] message.type = "loadState" ->
            [v EXCEPT !.nodes = message.item.nodes, !.edges = message.item.edges,
                      !.groups = message.item.groups]

\* most messages that one direction holds, and that _pendingMessages holds
MaxInFlight == 1
MaxPending == 2

\* the extension changes the store and posts the message that tells the webview
ExtensionMutates(message) ==
    /\ Len(layout.toWebview) < MaxInFlight
    /\ Len(layout.pendingMessages) < MaxPending
    /\ state' = MutatedBy(state, message)
    /\ workspaceState' =
            IF state' # state \/ message.type \in {"removeNode", "removeGroup"}
            THEN Present(state') ELSE workspaceState
    /\ layout' = PostMessage(layout, message)
    /\ last' = [op |-> message.type, arg |-> message.item,
                found |-> state' = state, group |-> "extension"]
    /\ UNCHANGED <<workspaceFiles, previousFilePath, view, tracking, index>>

\* handleMessage of App on the oldest message posted by the extension
AppOnMessage ==
    /\ layout.toWebview # <<>>
    /\ view' = AfterEffects(Reduced(view, Head(layout.toWebview)))
    /\ layout' = [layout EXCEPT !.toWebview = Tail(@)]
    /\ last' = [op |-> Head(layout.toWebview).type,
                arg |-> Head(layout.toWebview).item,
                found |-> view' = view, group |-> "webview"]
    /\ UNCHANGED <<workspaceFiles, state, workspaceState, previousFilePath,
                   tracking, index>>

\* handleStateChange of App with the nodes and edges it holds, moved by a drag
AppHandleStateChange ==
    /\ Len(layout.toExtension) < MaxInFlight
    /\ layout' = [layout EXCEPT !.toExtension =
            Append(@, [type |-> "saveState",
                       state |-> [nodes |-> view.nodes, edges |-> view.edges,
                                  groups |-> view.groups]])]
    /\ last' = [op |-> "handleStateChange", arg |-> "", found |-> FALSE,
                group |-> "webview"]
    /\ UNCHANGED <<workspaceFiles, state, workspaceState, previousFilePath, view,
                   tracking, index>>

\* _handleMessage of the view provider on the oldest saveState message
HandleSaveState ==
    /\ layout.toExtension # <<>>
    /\ LET saved == Head(layout.toExtension).state
       IN  /\ state' = [nodes |-> ArrayOf(saved.nodes),
                        edges |-> ArrayOf(saved.edges),
                        groups |-> ArrayOf(saved.groups)]
           /\ workspaceState' = Present(state')
    /\ layout' = [layout EXCEPT !.toExtension = Tail(@)]
    /\ last' = [op |-> "saveState", arg |-> "", found |-> state' = state,
                group |-> "extension"]
    /\ UNCHANGED <<workspaceFiles, previousFilePath, view, tracking, index>>

\* resolveWebviewView: the view is shown, its webview loads the html and
\* mounts a new App
ResolveWebviewView ==
    /\ layout' = [layout EXCEPT !.hasView = TRUE, !.isReady = FALSE,
                                !.toWebview = <<>>]
    /\ view' = InitialView
    /\ last' = [op |-> "resolveWebviewView", arg |-> "", found |-> FALSE,
                group |-> "extension"]
    /\ UNCHANGED <<workspaceFiles, state, workspaceState, previousFilePath,
                   tracking, index>>

\* _loadSavedState: the loadState message with the store, whose arrays lie in
\* the order given
LoadSavedState(lay, nodes, edges, groups) ==
    IF Len(nodes) > 0 \/ Len(edges) > 0
    THEN PostMessage(lay, [type |-> "loadState",
                           item |-> [nodes |-> nodes, edges |-> edges,
                                     groups |-> groups]])
    ELSE lay

\* _handleMessage of the view provider on the message ready, which the App of
\* a webview posts once, when it is mounted
HandleReady ==
    /\ layout.hasView
    /\ ~layout.isReady
    /\ \E nodes \in Orderings(state.nodes), edges \in Orderings(state.edges),
          groups \in Orderings(state.groups) :
            LET ready == [layout EXCEPT !.isReady = TRUE]
                sent == PostedFrom(ready, ready.pendingMessages, 1)
                emptied == [sent EXCEPT !.pendingMessages = <<>>]
            IN  layout' = LoadSavedState(emptied, nodes, edges, groups)
    /\ last' = [op |-> "ready", arg |-> "", found |-> layout.isReady,
                group |-> "extension"]
    /\ UNCHANGED <<workspaceFiles, state, workspaceState, previousFilePath, view,
                   tracking, index>>

-----------------------------------------------------------------------------
(* Specifications *)

Init ==
    /\ workspaceFiles \in Workspaces
    /\ state = EmptyState
    /\ workspaceState = Absent
    /\ previousFilePath = undefined
    /\ view = InitialView
    /\ tracking = InitialTracking
    /\ index = InitialIndex
    /\ layout = InitialLayout
    /\ last = [op |-> "activate", arg |-> "", found |-> FALSE, group |-> "none"]

\* the events NavigationTracker handles, the two webview messages that change
\* the store, and the clear command
Next ==
    \/ \E f \in workspaceFiles : OnEditorChange(f)
    \/ \E f \in workspaceFiles : OnTabsChange(f)
    \/ \E f \in workspaceFiles : OnDocumentClose(f)
    \/ \E m \in ViewModes : HandleModeChange(m)
    \/ \E f \in workspaceFiles : HandleDeleteNode(nodeIdOf[f])
    \/ HandleClearGraph
    \/ ClearGraphCommand

Spec == Init /\ [][Next]_vars

-----------------------------------------------------------------------------
(* StateManager driven directly, one public method per step *)

\* items handed to the add methods: two ids of each kind, and for each id two
\* items that differ in another field
StoreNodes ==
    {[id |-> i, filePath |-> "/w/" \o i, groupId |-> "g1", position |-> p] :
        i \in {"n1", "n2"}, p \in {0, 1}}

StoreEdges ==
    {[id |-> e[1] \o "-" \o e[2], source |-> e[1], target |-> e[2], edgeType |-> t] :
        e \in {<<"n1", "n2">>, <<"n2", "n2">>}, t \in {undefined, "navigation"}}

StoreGroups ==
    {[id |-> i, type |-> t, width |-> DEP_WIDTH, height |-> DEP_HEIGHT,
      requiredPlugins |-> Absent] :
        i \in {"g1", "g2"}, t \in {"plugin", "dependency"}}

\* graphs the webview hands to saveState: an empty one, and one that holds an
\* item of each kind twice
SavedStates ==
    LET n == [id |-> "n1", filePath |-> "/w/n1", groupId |-> "g1", position |-> 0]
        e == [id |-> "n1-n2", source |-> "n1", target |-> "n2",
              edgeType |-> undefined]
        g == [id |-> "g1", type |-> "plugin", width |-> DEP_WIDTH,
              height |-> DEP_HEIGHT, requiredPlugins |-> Absent]
    IN  {EmptyState,
         [nodes |-> Push(SetToBag({n}), n), edges |-> Push(SetToBag({e}), e),
          groups |-> Push(SetToBag({g}), g)]}

\* node.position = position on the node found with that id
UpdateNodePosition(st, nodeId, position) ==
    LET node == FindById(st.nodes, nodeId)
    IN  IF IsPresent(node)
        THEN [st EXCEPT !.nodes =
                Push(@ (-) SetToBag({ValueOf(node)}),
                     [ValueOf(node) EXCEPT !.position = position])]
        ELSE st

\* a public method has returned: the store it leaves, and whether it called
\* _persistState
Called(op, arg, found, st, persists) ==
    /\ state' = st
    /\ workspaceState' = IF persists THEN Present(st) ELSE workspaceState
    /\ last' = [op |-> op, arg |-> arg, found |-> found, group |-> "none"]
    /\ UNCHANGED <<workspaceFiles, previousFilePath, view, tracking, index,
                   layout>>

CallAddNode(node) ==
    LET exists == HasId(state.nodes, node.id)
    IN  Called("addNode", node, exists, AddNode(state, node), ~exists)

CallAddEdge(edge) ==
    LET exists == HasId(state.edges, edge.id)
    IN  Called("addEdge", edge, exists, AddEdge(state, edge), ~exists)

CallDeleteNode(nodeId) ==
    Called("deleteNode", nodeId, HasId(state.nodes, nodeId),
           DeleteNode(state, nodeId), TRUE)

CallUpdateNodePosition(nodeId, position) ==
    LET found == HasId(state.nodes, nodeId)
    IN  Called("updateNodePosition", <<nodeId, position>>, found,
               UpdateNodePosition(state, nodeId, position), found)

CallAddGroup(group) ==
    LET exists == HasId(state.groups, group.id)
    IN  Called("addGroup", group, exists, AddGroup(state, group), ~exists)

CallUpdateGroup(group) ==
    LET found == HasId(state.groups, group.id)
    IN  Called("updateGroup", group, found, UpdateGroup(state, group), found)

\* a deleteGroup that forgets _persistState
CallDeleteGroupUnpersisted(groupId) ==
    Called("deleteGroup", groupId, HasId(state.groups, groupId),
           DeleteGroup(state, groupId), FALSE)

CallDeleteGroup(groupId) ==
    Called("deleteGroup", groupId, HasId(state.groups, groupId),
           DeleteGroup(state, groupId), TRUE)

CallSaveState(newState) == Called("saveState", newState, FALSE, newState, TRUE)

CallClearState == Called("clearState", "", FALSE, ClearState, TRUE)

StoreInit ==
    /\ workspaceFiles = {}
    /\ state = EmptyState
    /\ workspaceState = Absent
    /\ previousFilePath = undefined
    /\ view = InitialView
    /\ tracking = InitialTracking
    /\ index = InitialIndex
    /\ layout = InitialLayout
    /\ last = [op |-> "constructor", arg |-> "", found |-> FALSE, group |-> "none"]

StoreNext ==
    \/ \E node \in StoreNodes : CallAddNode(node)
    \/ \E edge \in StoreEdges : CallAddEdge(edge)
    \/ \E nodeId \in {"n1", "n2"} : CallDeleteNode(nodeId)
    \/ \E nodeId \in {"n1", "n2"}, position \in {0, 1} :
            CallUpdateNodePosition(nodeId, position)
    \/ \E group \in StoreGroups : CallAddGroup(group)
    \/ \E group \in StoreGroups : CallUpdateGroup(group)
    \/ \E groupId \in {"g1", "g2"} : CallDeleteGroup(groupId)
    \/ \E newState \in SavedStates : CallSaveState(newState)
    \/ CallClearState

StoreSpec == StoreInit /\ [][StoreNext]_vars

-----------------------------------------------------------------------------
(* The webview driven by the extension's messages and the user's clicks *)

ViewNodes == {[id |-> "node-1"], [id |-> "node-2"]}

\* a navigation edge between the two files, and the dependency edge the
\* tracker stores when plugin a requires plugin b
ViewEdges ==
    {[id |-> "node-1-node-2", source |-> "node-1", target |-> "node-2",
      edgeType |-> "navigation"],
     [id |-> "dep-group-b-group-a", source |-> "group-b", target |-> "group-a",
      edgeType |-> "dependency"]}

ViewGroupIds == {"group-a", "group-b"}

ViewGroups == {[id |-> i, type |-> t] : i \in ViewGroupIds, t \in {"plugin", "dependency"}}

\* plugin lists the extension sends: none found, and two in which a requires
\* b, b requires d, c requires b and d, and d has no manifest
PluginLists ==
    LET a == [runtimeId |-> "a", requiredPlugins |-> <<"b">>]
        b == [runtimeId |-> "b", requiredPlugins |-> <<"d">>]
        c == [runtimeId |-> "c", requiredPlugins |-> <<"b", "d">>]
    IN  {<<>>, <<a, b>>, <<a, b, c>>}

\* persisted graphs sent when the webview becomes ready
LoadedStates ==
    LET n1 == [id |-> "node-1"]
        n2 == [id |-> "node-2"]
        nav == [id |-> "node-1-node-2", source |-> "node-1", target |-> "node-2",
                edgeType |-> "navigation"]
        dep == [id |-> "dep-group-b-group-a", source |-> "group-b",
                target |-> "group-a", edgeType |-> "dependency"]
        ga == [id |-> "group-a", type |-> "plugin"]
        gb == [id |-> "group-b", type |-> "dependency"]
    IN  {[nodes |-> <<>>, edges |-> <<>>, groups |-> <<>>, viewMode |-> undefined],
         [nodes |-> <<n1, n2>>, edges |-> <<nav, dep>>, groups |-> <<ga, gb>>,
          viewMode |-> "complete"],
         [nodes |-> <<n1>>, edges |-> <<nav>>, groups |-> <<ga>>,
          viewMode |-> "3d"]}

ViewInit ==
    /\ workspaceFiles = {}
    /\ state = EmptyState
    /\ workspaceState = Absent
    /\ previousFilePath = undefined
    /\ view = InitialView
    /\ tracking = InitialTracking
    /\ index = InitialIndex
    /\ layout = InitialLayout
    /\ last = [op |-> "mount", arg |-> "", found |-> FALSE, group |-> "none"]

ViewNext ==
    \/ \E node \in ViewNodes : MessageAddNode(node)
    \/ \E edge \in ViewEdges : MessageAddEdge(edge)
    \/ \E group \in ViewGroups : MessageAddGroup(group)
    \/ \E group \in ViewGroups : MessageUpdateGroup(group)
    \/ \E st \in LoadedStates : MessageLoadState(st)
    \/ \E node \in ViewNodes : MessageRemoveNode(node.id)
    \/ \E groupId \in ViewGroupIds : MessageRemoveGroup(groupId)
    \/ \E plugins \in PluginLists : MessageAllPlugins(plugins)
    \/ MessageClear
    \/ \E node \in ViewNodes : AppHandleNodeDelete(node.id)
    \/ AppHandleClear
    \/ \E newMode \in ViewModes : AppHandleModeChange(newMode)
    \/ LayoutTimeout

ViewSpec == ViewInit /\ [][ViewNext]_vars

-----------------------------------------------------------------------------
(* The tracker with selection events, symbol lookups and a clock *)

\* the files focused and closed
TrackedFiles == {"/w/a/Aa.ts", "/w/b/y.ts"}

SymbolInit ==
    /\ workspaceFiles = {"/w/a/Aa.ts", "/w/a/x.ts", "/w/b/y.ts"}
    /\ state = EmptyState
    /\ workspaceState = Absent
    /\ previousFilePath = undefined
    /\ view = InitialView
    /\ tracking = InitialTracking
    /\ index = InitialIndex
    /\ layout = InitialLayout
    /\ last = [op |-> "activate", arg |-> "", found |-> FALSE, group |-> "none"]

SymbolNext ==
    \/ \E f \in TrackedFiles : OnEditorChange(f)
    \/ \E cursor \in CursorWords : OnSelectionChange(cursor)
    \/ \E lookup \in tracking.lookups, answered \in BOOLEAN :
            FindContainingSymbolResolves(lookup, answered)
    \/ \E f \in TrackedFiles : OnDocumentClose(f)
    \/ Tick

SymbolSpec == SymbolInit /\ [][SymbolNext]_vars

-----------------------------------------------------------------------------
(* The plugin directory index with concurrent callers *)

\* kibana.jsonc files of a workspace: two plugins whose runtime ids differ by
\* letter case only, a plugin whose package id is the runtime id of another,
\* a package without plugin id, and a file that does not parse
ManifestFiles ==
    {[directory |-> "/w/p1", parses |-> TRUE, runtimeId |-> "Foo",
      packageId |-> "@kbn/foo", requiredPlugins |-> <<>>],
     [directory |-> "/w/p2", parses |-> TRUE, runtimeId |-> "foo",
      packageId |-> "", requiredPlugins |-> <<"Foo">>],
     [directory |-> "/w/p3", parses |-> TRUE, runtimeId |-> "bar",
      packageId |-> "foo", requiredPlugins |-> <<>>],
     [directory |-> "/w/p4", parses |-> TRUE, runtimeId |-> "",
      packageId |-> "@kbn/lib", requiredPlugins |-> <<>>],
     [directory |-> "/w/p5", parses |-> FALSE, runtimeId |-> "",
      packageId |-> "", requiredPlugins |-> <<>>]}

\* what findFiles can resolve to: the manifests of a workspace, in any order
ScanResults ==
    UNION {Orderings(SetToBag(files)) :
            files \in {{f \in ManifestFiles : f.directory \in dirs} :
                        dirs \in {{"/w/p1", "/w/p4", "/w/p5"},
                                  {"/w/p1", "/w/p2"},
                                  {"/w/p2", "/w/p3"}}}}

IndexInit ==
    /\ workspaceFiles = {}
    /\ state = EmptyState
    /\ workspaceState = Absent
    /\ previousFilePath = undefined
    /\ view = InitialView
    /\ tracking = InitialTracking
    /\ index = InitialIndex
    /\ layout = InitialLayout
    /\ last = [op |-> "constructor", arg |-> "", found |-> FALSE, group |-> "none"]

IndexNext ==
    \/ \E c \in 1..MaxCalls : Initialize(c)
    \/ \E p \in DOMAIN index.promises, kibanaJsonFiles \in ScanResults :
            BuildCacheCompletes(p, kibanaJsonFiles)
    \/ \E p \in DOMAIN index.promises : BuildCacheFails(p)
    \/ \E c \in 1..MaxCalls : InitializeResolves(c)
    \/ Clear

IndexSpec == IndexInit /\ [][IndexNext]_vars

-----------------------------------------------------------------------------
(* resolveCollisions on small sets of rectangles *)

\* Three nodes.  Node a has the default size and lies at the origin; node b
\* lies on it, beside it with an overlap below or above the threshold, at the
\* margin, or away from it; node c lies on both or away from both.  Each is
\* top-level or the child of a group.
RectXs ==
    {0, 100 * PerPixel, 210 * PerPixel - PerPixel \div 8,
     210 * PerPixel - PerPixel \div 16, 210 * PerPixel,
     0 - 150 * PerPixel}

RectYs == {0, 40 * PerPixel, 110 * PerPixel - PerPixel \div 16, 110 * PerPixel}

CollisionInputs ==
    {<<[id |-> "a", position |-> [x |-> 0, y |-> 0], width |-> Absent,
        height |-> Absent, parentId |-> pa],
       [id |-> "b", position |-> [x |-> bx, y |-> by], width |-> bw,
        height |-> Absent, parentId |-> pb],
       [id |-> "c", position |-> [x |-> c * PerPixel, y |-> c * PerPixel],
        width |-> Absent, height |-> Absent, parentId |-> pc]>> :
        pa \in {NoParent, "g"}, pb \in {NoParent, "g"},
        pc \in {NoParent, "g", "h"},
        bx \in RectXs, by \in RectYs,
        bw \in {Absent, Present(100 * PerPixel)},
        c \in {50, 400}}

CollisionInit ==
    /\ workspaceFiles = {}
    /\ state = EmptyState
    /\ workspaceState = Absent
    /\ previousFilePath = undefined
    /\ view = InitialView
    /\ tracking = InitialTracking
    /\ index = InitialIndex
    /\ layout \in {[InitialLayout EXCEPT !.nodes = nodes] :
                    nodes \in CollisionInputs}
    /\ last = [op |-> "constructor", arg |-> "", found |-> FALSE, group |-> "none"]

CollisionNext == ResolveCollisionsCalled

CollisionSpec == CollisionInit /\ [][CollisionNext]_vars

-----------------------------------------------------------------------------
(* resolveCollisions with a cap on the sweeps given by the caller *)

\* no sweep, one, two, or the default
SweepCaps == {0, 1, 2, DefaultMaxIterations}

SweepInit ==
    /\ workspaceFiles = {}
    /\ state = EmptyState
    /\ workspaceState = Absent
    /\ previousFilePath = undefined
    /\ view = InitialView
    /\ tracking = InitialTracking
    /\ index = InitialIndex
    /\ layout \in {InitialSweeps(nodes, maxIterations) :
                    nodes \in CollisionInputs, maxIterations \in SweepCaps}
    /\ last = [op |-> "constructor", arg |-> "", found |-> FALSE, group |-> "none"]

SweepNext == ResolveCollisionsWithOptions

SweepSpec == SweepInit /\ [][SweepNext]_vars

-----------------------------------------------------------------------------
(* Navigation, then the view switched to journey mode and back to plugin mode *)

\* focus and document-closed events until the view is switched to journey mode;
\* the next switch is the one back to plugin mode
RoundTripNext ==
    \/ /\ last.op # "handleModeChange"
       /\ \E f \in workspaceFiles : OnEditorChange(f)
    \/ /\ last.op # "handleModeChange"
       /\ \E f \in workspaceFiles : OnDocumentClose(f)
    \/ /\ last.op # "handleModeChange"
       /\ HandleModeChange("journey")
    \/ /\ last.op = "handleModeChange" /\ last.arg = "journey"
       /\ HandleModeChange("plugin")

RoundTripSpec == Init /\ [][RoundTripNext]_vars

-----------------------------------------------------------------------------
(* Files of a plugin opened and closed, with the positions of their nodes *)

StackInit ==
    /\ workspaceFiles \in Workspaces
    /\ state = EmptyState
    /\ workspaceState = Absent
    /\ previousFilePath = undefined
    /\ view = InitialView
    /\ tracking = InitialTracking
    /\ index = InitialIndex
    /\ layout = InitialStack
    /\ last = [op |-> "activate", arg |-> "", found |-> FALSE, group |-> "none"]

StackNext ==
    \/ \E f \in workspaceFiles : OnEditorChange(f)
    \/ \E f \in workspaceFiles : OnTabsChange(f)
    \/ \E f \in workspaceFiles : OnDocumentClose(f)

StackSpec == StackInit /\ [][StackNext]_vars

-----------------------------------------------------------------------------
(* The store and its mirror in the webview, with messages in flight *)

\* one node, the navigation edge that ends at it, and one group; item is the
\* node, edge or group of an add message, and holds the nodeId or groupId of a
\* remove message
SyncMessages ==
    LET node == [id |-> "node-1"]
        edge == [id |-> "node-2-node-1", source |-> "node-2", target |-> "node-1",
                 edgeType |-> "navigation"]
        group == [id |-> "group-a", type |-> "plugin"]
    IN  {[type |-> "addNode", item |-> node],
         [type |-> "addEdge", item |-> edge],
         [type |-> "addGroup", item |-> group],
         [type |-> "removeNode", item |-> [id |-> node.id]],
         [type |-> "removeGroup", item |-> [id |-> group.id]]}

SyncInit ==
    /\ workspaceFiles = {}
    /\ state = EmptyState
    /\ workspaceState = Absent
    /\ previousFilePath = undefined
    /\ view = InitialView
    /\ tracking = InitialTracking
    /\ index = InitialIndex
    /\ layout = InitialChannels
    /\ last = [op |-> "ready", arg |-> "", found |-> FALSE, group |-> "none"]

SyncNext ==
    \/ \E message \in SyncMessages : ExtensionMutates(message)
    \/ AppOnMessage
    \/ AppHandleStateChange
    \/ HandleSaveState

SyncSpec == SyncInit /\ [][SyncNext]_vars

-----------------------------------------------------------------------------
(* The view provider before and after the webview is ready *)

\* the extension adds a node, an edge and a group and removes the node
ReadyMessages == {message \in SyncMessages : message.type # "removeGroup"}

ReadyInit ==
    /\ workspaceFiles = {}
    /\ state = EmptyState
    /\ workspaceState = Absent
    /\ previousFilePath = undefined
    /\ view = InitialView
    /\ tracking = InitialTracking
    /\ index = InitialIndex
    /\ layout = UnresolvedChannels
    /\ last = [op |-> "constructor", arg |-> "", found |-> FALSE, group |-> "none"]

ReadyNext ==
    \/ \E message \in ReadyMessages : ExtensionMutates(message)
    \/ ResolveWebviewView
    \/ HandleReady
    \/ AppOnMessage

ReadySpec == ReadyInit /\ [][ReadyNext]_vars

-----------------------------------------------------------------------------
(* Focus moving between files, other documents and no editor *)

FocusNext ==
    \/ \E f \in workspaceFiles : OnEditorChange(f)
    \/ \E editor \in NonFileEditors : OnEditorChangeSkipped(editor)
    \/ \E f \in workspaceFiles : OnTabsChange(f)

FocusSpec == Init /\ [][FocusNext]_vars

-----------------------------------------------------------------------------
(* The layout worker and its requests *)

\* most nodes of a layout request
MaxLayoutNodes == 9

\* layout requests: up to MaxLayoutNodes nodes of one size, without edges,
\* with an edge between two of them, or with an edge to a node not requested
LayoutIds == <<"n1", "n2", "n3", "n4", "n5", "n6", "n7", "n8", "n9", "n10">>

LayoutInputs ==
    {[nodes |-> [k \in 1..n |-> [id |-> LayoutIds[k], width |-> w,
                                 height |-> 50]],
      edges |-> edges] :
        n \in 0..MaxLayoutNodes, w \in {100, 200},
        edges \in {<<>>, <<[source |-> "n1", target |-> "n2"]>>,
                   <<[source |-> "n1", target |-> "missing"]>>}}

WorkerInit ==
    /\ workspaceFiles = {}
    /\ state = EmptyState
    /\ workspaceState = Absent
    /\ previousFilePath = undefined
    /\ view = InitialView
    /\ tracking = InitialTracking
    /\ index = InitialIndex
    /\ layout = InitialWorker
    /\ last = [op |-> "constructor", arg |-> "", found |-> FALSE, group |-> "none"]

WorkerNext ==
    \E data \in LayoutInputs, outcome \in SimulationOutcomes :
        OnMessage(data, outcome)

WorkerSpec == WorkerInit /\ [][WorkerNext]_vars

-----------------------------------------------------------------------------
(* The grid of dependency groups for plugins with few and with many
   required plugins *)

\* most plugins a plugin requires
MaxDeps == 7

DepIds == <<"d1", "d2", "d3", "d4", "d5", "d6", "d7", "d8">>

\* positions of a main group: the first plugin group, groups stacked below it,
\* and promoted placeholders
MainGroupXs == {50, 84, 194, 304, 0 - 386}
MainGroupYs == {50, 228, 406}

GridInit ==
    /\ workspaceFiles = {}
    /\ state = EmptyState
    /\ workspaceState = Absent
    /\ previousFilePath = undefined
    /\ view = InitialView
    /\ tracking = InitialTracking
    /\ index = InitialIndex
    /\ layout \in {InitialGrid([x |-> x, y |-> y], SubSeq(DepIds, 1, n), existing) :
                    x \in MainGroupXs, y \in MainGroupYs, n \in 1..MaxDeps,
                    existing \in {{}, {"group-d2"}}}
    /\ last = [op |-> "constructor", arg |-> "", found |-> FALSE, group |-> "none"]

GridNext == CreateDependencyGroupsCalled

GridSpec == GridInit /\ [][GridNext]_vars

-----------------------------------------------------------------------------
(* Complete mode entered, left and entered again while navigation goes on *)

PositionInit ==
    /\ workspaceFiles = {}
    /\ state = EmptyState
    /\ workspaceState = Absent
    /\ previousFilePath = undefined
    /\ view = InitialView
    /\ tracking = InitialTracking
    /\ index = InitialIndex
    /\ layout = InitialPositions
    /\ last = [op |-> "mount", arg |-> "", found |-> FALSE, group |-> "none"]

\* the plugin list of a session is the list of its index: the extension sends
\* the same list every time
PositionNext ==
    \/ \E plugins \in PluginLists :
        /\ view.allPlugins \in {<<>>, plugins}
        /\ MessageAllPlugins(plugins)
    \/ \E edge \in ViewEdges : MessageAddEdge(edge)
    \/ \E group \in ViewGroups : MessageAddGroup(group)
    \/ \E groupId \in ViewGroupIds : MessageRemoveGroup(groupId)
    \/ \E newMode \in ViewModes : AppHandleModeChange(newMode)
    \/ CompleteLayoutTimeout

PositionSpec == PositionInit /\ [][PositionNext]_vars

-----------------------------------------------------------------------------
(* The tracker while the plugin directory index initializes *)

\* the kibana.jsonc files findFiles resolves to in the tracker's workspace
WorkspaceManifestFiles ==
    [k \in 1..3 |->
        LET dir == <<"/w/a", "/w/b", "/w/c">>[k]
        IN  [directory |-> dir, parses |-> TRUE,
             runtimeId |-> Manifests[dir].runtimeId,
             packageId |-> Manifests[dir].id,
             requiredPlugins |-> Manifests[dir].requiredPlugins]]

LabelInit ==
    /\ workspaceFiles = {"/w/a/Aa.ts", "/w/b/y.ts", "/w/c/z.ts"}
    /\ state = EmptyState
    /\ workspaceState = Absent
    /\ previousFilePath = undefined
    /\ view = InitialView
    /\ tracking = InitialTracking
    /\ index = InitialIndex
    /\ layout = InitialLayout
    /\ last = [op |-> "activate", arg |-> "", found |-> FALSE, group |-> "none"]

\* activate calls initialize() without awaiting it and then constructs the
\* tracker, so the editor's events follow call 1 and may come before the scan
\* is complete
LabelNext ==
    \/ \E c \in 1..MaxCalls : Initialize(c)
    \/ \E p \in DOMAIN index.promises :
            BuildCacheCompletes(p, WorkspaceManifestFiles)
    \/ \E c \in 1..MaxCalls : InitializeResolves(c)
    \/ \E f \in workspaceFiles :
            index.calls[1].status # "none" /\ OnEditorChange(f)
    \/ \E f \in workspaceFiles :
            index.calls[1].status # "none" /\ OnDocumentClose(f)

LabelSpec == LabelInit /\ [][LabelNext]_vars

-----------------------------------------------------------------------------
(* Properties *)

\* the items of a store array that carry the id
WithId(items, id) == Filter(items, LAMBDA x : x.id = id)

\* the store array holds exactly one item with the id
OneWithId(items, id) == Length(WithId(items, id)) = 1

\* the item of a store array that carries the id
TheItem(items, id) == CHOOSE x \in BagToSet(items) : x.id = id

\* the step taken is the handler op run on arg
Step(op, arg) == last'.op = op /\ last'.arg = arg

\* the store arrays as sets
Nodes(st) == BagToSet(st.nodes)
Groups(st) == BagToSet(st.groups)
Edges(st) == BagToSet(st.edges)

\* the files whose plugin declares exactly one required plugin
FilesOfSingleDependencyPlugins ==
    {f \in Files : /\ IsPresent(pluginInfoOf[f])
                   /\ Len(ValueOf(pluginInfoOf[f]).requiredPlugins) = 1}

\* C1: focusing a file that has no node, of a plugin A whose manifest requires
\* exactly plugin B, while the store holds neither group-A nor group-B, leaves
\* group-A of type plugin with requiredPlugins [B], group-B of type dependency
\* without requiredPlugins, exactly one dependency edge dep-group-B-group-A from
\* group-B to group-A (and no other dependency edge into group-A), and one node
\* for the file, whose groupId is group-A.
C1_FocusCreatesPluginAndDependency ==
    [][\A f \in FilesOfSingleDependencyPlugins :
        LET A == ValueOf(pluginInfoOf[f]).runtimeId
            B == ValueOf(pluginInfoOf[f]).requiredPlugins[1]
            groupA == "group-" \o A
            groupB == "group-" \o B
            edgeId == "dep-group-" \o B \o "-group-" \o A
        IN  ( /\ Step("onEditorChange", f)
              /\ ~HasId(state.nodes, nodeIdOf[f])
              /\ ~HasId(state.groups, groupA)
              /\ ~HasId(state.groups, groupB) )
            =>
            ( /\ OneWithId(state'.groups, groupA)
              /\ TheItem(state'.groups, groupA).type = "plugin"
              /\ TheItem(state'.groups, groupA).requiredPlugins = Present(<<B>>)
              /\ OneWithId(state'.groups, groupB)
              /\ TheItem(state'.groups, groupB).type = "dependency"
              /\ TheItem(state'.groups, groupB).requiredPlugins = Absent
              /\ Filter(state'.edges,
                        LAMBDA e : e.id = edgeId \/ (e.edgeType = "dependency"
                                                      /\ e.target = groupA))
                 = SetToBag({[id |-> edgeId, source |-> groupB, target |-> groupA,
                              edgeType |-> "dependency"]})
              /\ WithId(state'.nodes, nodeIdOf[f])
                 = SetToBag({[id |-> nodeIdOf[f], filePath |-> f,
                              groupId |-> groupA,
                              symbols |-> Absent, sourceSymbols |-> Absent]}) )
      ]_vars

\* C1 happens: the first focus of /w/a/Aa.ts, of plugin a requiring b, on an
\* empty store
C1_FirstFocusOfPluginFile ==
    /\ last = [op |-> "onEditorChange", arg |-> "/w/a/Aa.ts", found |-> FALSE,
               group |-> "none"]
    /\ previousFilePath = "/w/a/Aa.ts"
    /\ state.nodes = SetToBag({[id |-> "node-36d39ed8", filePath |-> "/w/a/Aa.ts",
                                groupId |-> "group-a",
                                symbols |-> Absent, sourceSymbols |-> Absent]})
    /\ state.groups =
         SetToBag({[id |-> "group-a", label |-> "@kbn/a-plugin",
                    type |-> "plugin", width |-> 268,
                    height |-> 138, requiredPlugins |-> Present(<<"b">>)],
                   [id |-> "group-b", label |-> "b",
                    type |-> "dependency", width |-> 200,
                    height |-> 50, requiredPlugins |-> Absent]})
    /\ state.edges = SetToBag({[id |-> "dep-group-b-group-a", source |-> "group-b",
                                target |-> "group-a", edgeType |-> "dependency"]})

\* the group owns a node of the store
OwnsFile(st, groupId) == Length(GetNodesInGroup(st, groupId)) > 0

\* a group of type plugin other than group-A and group-B lists B as required
ListedByOther(st, B, groupA) ==
    \E g \in Groups(st) : /\ g.type = "plugin"
                          /\ g.id # groupA
                          /\ g.id # "group-" \o B
                          /\ Requires(g, B)

\* this step completes the close of f: its document-closed event found the node,
\* or it is the second of the tab-closed and document-closed events of f, the
\* first of which found the node
CloseCompletes(f) ==
    \/ Step("onDocumentClose", f) /\ last'.found
    \/ Step("onDocumentClose", f)
        /\ last.op = "onTabsChange" /\ last.arg = f /\ last.found
    \/ Step("onTabsChange", f)
        /\ last.op = "onDocumentClose" /\ last.arg = f /\ last.found

\* C2: once the close of the only file of plugin A (requiring exactly B, itself
\* required by no plugin group) is complete, in whichever order the tab-closed and
\* document-closed events came, group-A is not in the store; group-B is not in
\* the store either if it owns no file and no other plugin group lists B; and
\* group-B stays in the store if another plugin group lists B.
C2_ClosingOnlyFileRemovesGroups ==
    [][\A f \in FilesOfSingleDependencyPlugins :
        LET A == ValueOf(pluginInfoOf[f]).runtimeId
            B == ValueOf(pluginInfoOf[f]).requiredPlugins[1]
            groupA == "group-" \o A
            groupB == "group-" \o B
        IN  ( /\ CloseCompletes(f)
              /\ ~OwnsFile(state', groupA)
              /\ ~ListedByOther(state', A, groupA) )
            =>
            ( /\ ~HasId(state'.groups, groupA)
              /\ (~OwnsFile(state', groupB) /\ ~ListedByOther(state', B, groupA))
                 => ~HasId(state'.groups, groupB)
              /\ (ListedByOther(state', B, groupA) /\ HasId(state.groups, groupB))
                 => HasId(state'.groups, groupB) )
      ]_vars

\* C3: promotion.  When a file without a node is focused, its plugin B has the
\* group group-B and that group has type dependency, then after the event the
\* store holds group-B once, with type plugin and the requiredPlugins of B's
\* manifest; the store held it once before (no second group was added); and the
\* file's new node has groupId group-B.
C3_PromotionKeepsGroup ==
    [][\A f \in Files :
        LET info == pluginInfoOf[f]
            groupB == "group-" \o ValueOf(info).runtimeId
        IN  ( /\ IsPresent(info)
              /\ Step("onEditorChange", f)
              /\ ~HasId(state.nodes, nodeIdOf[f])
              /\ HasId(state.groups, groupB)
              /\ TheItem(state.groups, groupB).type = "dependency" )
            =>
            ( /\ OneWithId(state.groups, groupB)
              /\ OneWithId(state'.groups, groupB)
              /\ TheItem(state'.groups, groupB).type = "plugin"
              /\ TheItem(state'.groups, groupB).requiredPlugins
                 = Present(Manifests[ValueOf(info).pluginDir].requiredPlugins)
              /\ WithId(state'.nodes, nodeIdOf[f])
                 = SetToBag({[id |-> nodeIdOf[f], filePath |-> f,
                              groupId |-> groupB,
                              symbols |-> Absent, sourceSymbols |-> Absent]}) )
      ]_vars

\* C3 happens: /w/b/y.ts was focused after /w/a/Aa.ts, when plugin b had only the
\* dependency group that plugin a's focus created
C3_DependencyGroupPromoted ==
    /\ last = [op |-> "onEditorChange", arg |-> "/w/b/y.ts", found |-> FALSE,
               group |-> "dependency"]
    /\ HasId(state.nodes, nodeIdOf["/w/a/Aa.ts"])
    /\ WithId(state.groups, "group-b")
       = SetToBag({[id |-> "group-b", label |-> "b",
                    type |-> "plugin", width |-> 268,
                    height |-> 138, requiredPlugins |-> Present(<<"d">>)]})
    /\ TheItem(state.nodes, nodeIdOf["/w/b/y.ts"]).groupId = "group-b"
    /\ HasId(state.groups, "group-d")

\* a group of type plugin other than the group itself lists the group's plugin
RequiredByOther(st, groupId) ==
    \E o \in Groups(st) : /\ o.type = "plugin"
                          /\ o.id # groupId
                          /\ Requires(o, RemoveFirst(groupId, "group-"))

\* the handlers that remove a node because its file or the node itself is closed
Closes == {"onTabsChange", "onDocumentClose", "deleteNode"}

\* C4: when a close removes the last node of a plugin group G, G stays in the
\* store as a dependency group without requiredPlugins if another plugin group
\* requires it, and is deleted otherwise; and a group changes from plugin to
\* dependency only when it owns no file and another plugin group requires it.
C4_LastFileRemovedDemotesOrDeletes ==
    [][\A g \in Groups(state) :
        /\ ( /\ last'.op \in Closes
              /\ g.type = "plugin"
              /\ OwnsFile(state, g.id)
              /\ ~OwnsFile(state', g.id) )
           => IF RequiredByOther(state, g.id)
              THEN /\ OneWithId(state'.groups, g.id)
                   /\ TheItem(state'.groups, g.id).type = "dependency"
                   /\ TheItem(state'.groups, g.id).requiredPlugins = Absent
              ELSE ~HasId(state'.groups, g.id)
        /\ ( /\ g.type = "plugin"
              /\ HasId(state'.groups, g.id)
              /\ TheItem(state'.groups, g.id).type = "dependency" )
           => /\ ~OwnsFile(state', g.id)
              /\ RequiredByOther(state', g.id)
      ]_vars

\* C5: in every reachable state no two groups of the store share an id, so each
\* runtime id has at most one group group-{runtimeId}, and no two nodes share an
\* id.
C5_UniqueIds ==
    /\ \A g \in Groups(state) : WithId(state.groups, g.id) = SetToBag({g})
    /\ \A n \in Nodes(state) : WithId(state.nodes, n.id) = SetToBag({n})

\* C5 happens: closing /w/b/y.ts rewrote group-b in place as a dependency group
\* while the store still holds the node and group of another plugin
C5_GroupRewrittenInPlace ==
    /\ last = [op |-> "onDocumentClose", arg |-> "/w/b/y.ts", found |-> TRUE,
               group |-> "plugin"]
    /\ HasId(state.groups, "group-b")
    /\ TheItem(state.groups, "group-b").type = "dependency"
    /\ \E n \in Nodes(state) : n.groupId # "group-b" /\ HasId(state.groups, n.groupId)

\* C6: after every handled focus-change, tab-closed and document-closed event,
\* every group of type plugin in the store owns at least one node.
C6_PluginGroupsOwnFiles ==
    last.op \in {"onEditorChange", "onTabsChange", "onDocumentClose"}
    => \A g \in Groups(state) : g.type = "plugin" => OwnsFile(state, g.id)

\* the edges of the store that record a navigation
NavigationEdges(st) == Filter(st.edges, LAMBDA e : e.edgeType # "dependency")

\* the navigation edges between two nodes, in both directions
EdgesBetween(st, x, y) ==
    Filter(NavigationEdges(st),
           LAMBDA e : \/ e.source = x /\ e.target = y
                      \/ e.source = y /\ e.target = x)

\* C7: in every reachable state the store holds at most one navigation edge
\* between any two nodes, counting both directions and copies, and no navigation
\* edge has the same node as source and target.
C7_OneNavigationEdgePerPair ==
    \A e \in BagToSet(NavigationEdges(state)) :
        /\ e.source # e.target
        /\ Length(EdgesBetween(state, e.source, e.target)) = 1

\* C8: in every reachable state the source and the target of each navigation
\* edge are ids of nodes of the store.
C8_NavigationEdgesJoinStoredNodes ==
    \A e \in BagToSet(NavigationEdges(state)) :
        HasId(state.nodes, e.source) /\ HasId(state.nodes, e.target)

\* C9: whenever a step deletes a group from the store, the store afterwards holds
\* no dependency edge with that group as source or target.
C9_DeletedGroupLosesDependencyEdges ==
    [][\A g \in Groups(state) :
        ~HasId(state'.groups, g.id)
        => \A e \in Edges(state') :
              e.edgeType = "dependency" => e.source # g.id /\ e.target # g.id
      ]_vars

\* C10: when the document-closed event of a file F that is previousFilePath has
\* been handled, previousFilePath is no longer F, whether or not the node of F
\* was removed before by the tab-closed handler or a deleteNode message.
C10_CloseClearsPreviousFilePath ==
    [][\A f \in Files :
        (Step("onDocumentClose", f) /\ previousFilePath = f)
        => previousFilePath' # f
      ]_vars

\* C11: addNode, addEdge and addGroup called with an item whose id is already in
\* the corresponding array leave nodes, edges and groups as they were: nothing
\* is added and the stored item is not replaced.
C11_AddIsIdempotentOnId ==
    [][ /\ (last'.op = "addNode" /\ HasId(state.nodes, last'.arg.id))
           => state' = state
        /\ (last'.op = "addEdge" /\ HasId(state.edges, last'.arg.id))
           => state' = state
        /\ (last'.op = "addGroup" /\ HasId(state.groups, last'.arg.id))
           => state' = state
      ]_vars

\* C11 happens: addNode was called with an item that differs from the stored
\* node of the same id
C11_AddedExistingId ==
    /\ last.op = "addNode"
    /\ last.found
    /\ HasId(state.nodes, last.arg.id)
    /\ last.arg \notin Nodes(state)

\* the number of copies of an item in a store array
Copies(items, x) == IF x \in BagToSet(items) THEN items[x] ELSE 0

\* the nodes and edges a deleteNode(id) must leave: no node with the id, no edge
\* touching the id, every other node and edge as before and nothing new
DeletedExactly(id) ==
    /\ ~HasId(state'.nodes, id)
    /\ Nodes(state') \subseteq Nodes(state)
    /\ \A n \in Nodes(state) :
          n.id # id => Copies(state'.nodes, n) = Copies(state.nodes, n)
    /\ Edges(state') \subseteq Edges(state)
    /\ \A e \in Edges(state) :
          IF e.source = id \/ e.target = id
          THEN e \notin Edges(state')
          ELSE Copies(state'.edges, e) = Copies(state.edges, e)

\* C12, for the deleteNode the webview's deleteNode message performs: it removes
\* the node with the id and exactly the edges whose source or target is the id,
\* leaves every other node and edge unchanged, and when no node has the id it
\* changes nothing in the graph (the message then performs nothing else).
C12_DeleteNodeFrame ==
    [][ last'.op = "deleteNode"
        => /\ DeletedExactly(last'.arg)
           /\ ~HasId(state.nodes, last'.arg) => state' = state
      ]_vars

\* C12 for StateManager.deleteNode called directly on a store in which every
\* edge joins stored nodes: the frame above, groups unchanged, and no change at
\* all when no node has the id.
C12_DeleteNodeFrameWithoutDanglingEdges ==
    [][ ( /\ last'.op = "deleteNode"
          /\ \A e \in Edges(state) :
                HasId(state.nodes, e.source) /\ HasId(state.nodes, e.target) )
        => /\ DeletedExactly(last'.arg)
           /\ state'.groups = state.groups
           /\ ~HasId(state.nodes, last'.arg) => state' = state
      ]_vars

\* C13: once a method of StateManager has changed the store, the blob under
\* STATE_KEY is the store; the blob is absent only while the store is still the
\* empty one the constructor made.
C13_WriteThrough ==
    IF IsPresent(workspaceState)
    THEN ValueOf(workspaceState) = state
    ELSE state = EmptyState

\* C13 happens: deleteGroup removed a group from a store that holds nodes and
\* the blob is that store
C13_DeleteGroupPersisted ==
    /\ last.op = "deleteGroup"
    /\ last.found
    /\ Length(state.nodes) > 0
    /\ workspaceState = Present(state)

\* the items of an array, as a set
ItemsOf(items) == {items[i] : i \in DOMAIN items}

\* C14: in every view mode, and whatever nodes, edges, groups and plugin list
\* the webview holds, each edge of the projection has its source and its
\* target among the ids of the displayed file nodes and of the projected groups
C14_ProjectedEdgesHaveEndpoints ==
    \A edge \in ItemsOf(FilteredEdges(view)) :
        /\ edge.source \in IdsOf(view.nodes) \cup IdsOf(FilteredGroups(view))
        /\ edge.target \in IdsOf(view.nodes) \cup IdsOf(FilteredGroups(view))

\* plugin mode shows one stored edge and drops another whose group is gone
C14_DanglingEdgeDropped ==
    /\ view.viewMode = "plugin"
    /\ FilteredEdges(view) # <<>>
    /\ \E edge \in ItemsOf(view.edges) :
        /\ edge \notin ItemsOf(FilteredEdges(view))
        /\ edge.source \notin IdsOf(view.groups)

\* C15: in journey mode the projected groups are exactly the stored groups of
\* type plugin, and the projected edges are exactly the stored edges that are
\* no dependency edges (by edgeType, by a dep- id, or by joining two groups)
\* and whose endpoints are displayed; so no dependency group and no
\* dependency edge is projected
C15_JourneyProjection ==
    view.viewMode = "journey" =>
        LET pluginGroups == {g \in ItemsOf(view.groups) : g.type = "plugin"}
            displayed == IdsOf(view.nodes) \cup {g.id : g \in pluginGroups}
        IN  /\ ItemsOf(FilteredGroups(view)) = pluginGroups
            /\ ItemsOf(FilteredEdges(view)) =
                {e \in ItemsOf(view.edges) :
                    /\ e.edgeType # "dependency"
                    /\ ~StartsWith(e.id, "dep-")
                    /\ ~(StartsWith(e.source, "group-") /\ StartsWith(e.target, "group-"))
                    /\ e.source \in displayed
                    /\ e.target \in displayed}
            /\ \A g \in ItemsOf(FilteredGroups(view)) : g.type # "dependency"
            /\ \A e \in ItemsOf(FilteredEdges(view)) : e.edgeType # "dependency"

\* journey mode with a stored dependency group and a stored dependency edge,
\* and a navigation edge that is projected
C15_JourneyHidesDependencies ==
    /\ view.viewMode = "journey"
    /\ \E g \in ItemsOf(view.groups) : g.type = "dependency"
    /\ \E e \in ItemsOf(view.edges) : e.edgeType = "dependency"
    /\ FilteredEdges(view) # <<>>

\* C16: in complete mode, with the plugin list loaded and the layout
\* computed, the projected groups hold exactly one group group-{runtimeId}
\* for every plugin of the list, also after stored groups were added or
\* removed while the mode stayed complete
C16_CompleteShowsEveryPluginOnce ==
    (view.viewMode = "complete" /\ Len(view.allPlugins) > 0
        /\ view.hasCalculatedLayout) =>
        \A i \in DOMAIN view.allPlugins :
            Cardinality({j \in DOMAIN FilteredGroups(view) :
                FilteredGroups(view)[j].id
                    = GroupIdOf(view.allPlugins[i].runtimeId)}) = 1

\* the required plugins of a group
RequiredPluginsOf(g) ==
    IF IsPresent(g.requiredPlugins) THEN ValueOf(g.requiredPlugins) ELSE <<>>

\* C17: handleModeChange('plugin') leaves every node, edge and group in the
\* store, adds nothing but dependency groups, one for each required plugin
\* of a plugin group that had no group, and their edges; after it every
\* required plugin of every plugin group has a group, and a second call
\* right after the first changes nothing
C17_PluginModeTopsUp ==
    [][Step("handleModeChange", "plugin") =>
        /\ state.nodes = state'.nodes
        /\ state.edges \sqsubseteq state'.edges
        /\ state.groups \sqsubseteq state'.groups
        /\ \A g \in BagToSet(state'.groups (-) state.groups) :
            /\ g.type = "dependency"
            /\ ~HasId(state.groups, g.id)
            /\ Copies(state'.groups, g) = 1
            /\ \E p \in Groups(state) :
                /\ p.type = "plugin"
                /\ \E i \in DOMAIN RequiredPluginsOf(p) :
                    g.id = GroupIdOf(RequiredPluginsOf(p)[i])
        /\ \A p \in Groups(state) :
            p.type = "plugin" =>
                \A i \in DOMAIN RequiredPluginsOf(p) :
                    HasId(state'.groups, GroupIdOf(RequiredPluginsOf(p)[i]))
        /\ (last.op = "handleModeChange" /\ last.arg = "plugin") => state' = state
    ]_vars

\* handleModeChange('plugin') has added a dependency group
C17_PluginModeAddedGroup ==
    /\ last.op = "handleModeChange"
    /\ last.arg = "plugin"
    /\ last.found

\* a dependency group that owns no node of the store
EmptyDependencyGroup(st, g) ==
    /\ g.type = "dependency"
    /\ \A n \in Nodes(st) : n.groupId # g.id

\* C18: handleModeChange('journey') deletes the dependency groups that own
\* no node and nothing else: the nodes, the plugin groups and the dependency
\* groups that own a node are in the store as before
C18_JourneyModeDeletesEmptyDependencyGroups ==
    [][Step("handleModeChange", "journey") =>
        /\ state'.nodes = state.nodes
        /\ \A g \in Groups(state) \cup Groups(state') :
            Copies(state'.groups, g) =
                IF EmptyDependencyGroup(state, g) THEN 0
                ELSE Copies(state.groups, g)
    ]_vars

\* handleModeChange('journey') has deleted a dependency group and left a
\* plugin group and its node
C18_JourneyModeDeletedGroup ==
    /\ last.op = "handleModeChange"
    /\ last.arg = "journey"
    /\ last.found
    /\ \E g \in Groups(state) : g.type = "plugin"
    /\ Nodes(state) # {}

\* the destination symbols and the source symbols of the nodes with an id
SymbolsOn(st, nodeId) ==
    UNION {ItemsOf(SymbolsOf(n.symbols)) : n \in {m \in Nodes(st) : m.id = nodeId}}

SourceSymbolsOn(st, nodeId) ==
    UNION {ItemsOf(SymbolsOf(n.sourceSymbols)) :
            n \in {m \in Nodes(st) : m.id = nodeId}}

\* C19: a focus change to a file gives its node a destination symbol only if
\* an identifier is pending that was touched less than 500 ms before, and
\* previousFilePath is set and is another file; the symbol is then the
\* pending one, and it is pending no more after the focus change.  In every
\* other case the node's symbols are those it had (none, for a new node).
C19_SymbolOnlyWithinWindow ==
    [][\A f \in Files :
        Step("onEditorChange", f) =>
            LET fresh ==
                    /\ IsPresent(tracking.lastTrackedSymbol)
                    /\ (tracking.now - tracking.lastSymbolTimestamp) * MsPerTick < 500
                    /\ previousFilePath # undefined
                    /\ previousFilePath # f
                before == SymbolsOn(state, nodeIdOf[f])
                after == SymbolsOn(state', nodeIdOf[f])
            IN  /\ ~fresh => after = before
                /\ fresh => after \subseteq
                            before \cup {ValueOf(tracking.lastTrackedSymbol)}
                /\ after # before => tracking'.lastTrackedSymbol = Absent
                /\ fresh => tracking'.lastTrackedSymbol = Absent
    ]_vars

\* a focus change has created a node that carries the pending symbol, and
\* no symbol is pending any more
C19_NewNodeTagged ==
    /\ last.op = "onEditorChange"
    /\ ~last.found
    /\ SymbolsOn(state, nodeIdOf[last.arg]) # {}
    /\ tracking.lastTrackedSymbol = Absent

\* C20: a focus change attaches a source symbol to a node only if the lookup
\* started by the most recent identifier touch has completed, and the symbol
\* is the result of that lookup: never the result of an earlier touch's
\* lookup, nor one that arrived after the jump its touch was followed by
C20_SourceSymbolFromLatestLookup ==
    [][\A f \in Files :
        Step("onEditorChange", f) =>
            \A g \in Files :
                LET added == SourceSymbolsOn(state', nodeIdOf[g])
                                \ SourceSymbolsOn(state, nodeIdOf[g])
                IN  added # {} =>
                        /\ IsPresent(tracking.lastTrackedSymbol)
                        /\ ValueOf(tracking.lastTrackedSymbol) \notin tracking.lookups
                        /\ added = ItemsOf(ContainingSymbol(
                                        ValueOf(tracking.lastTrackedSymbol)))
    ]_vars

\* C21: as long as clear() has not been called, the initialize() calls made,
\* however they overlap, have started _buildCache exactly once; none of them
\* has resolved before that scan finished; and the calls made after it
\* finished have started no other
C21_OneScanForAllCalls ==
    index.clears = 0 =>
        /\ Len(index.promises) <= 1
        /\ \A c \in 1..MaxCalls :
            /\ index.calls[c].status # "none" => Len(index.promises) = 1
            /\ index.calls[c].status = "resolved" =>
                    index.promises = <<"fulfilled">>

\* two overlapping calls, of which the one that started the scan has resolved
\* and the other has not yet, and a call made after the index was initialized
C21_OverlappingAndLateCalls ==
    /\ index.clears = 0
    /\ \E c1, c2, c3 \in 1..MaxCalls :
        /\ index.calls[c1] = [status |-> "resolved", promise |-> 1]
        /\ index.calls[c2] = [status |-> "chained", promise |-> 1]
        /\ index.calls[c3] = [status |-> "resolved", promise |-> 0]

\* C30: after the scan of an empty index, getAllPlugins() holds exactly one
\* entry for each runtime id of a manifest that parsed, and no other entry,
\* in whatever order the manifests were scanned
C30_OneEntryPerRuntimeId ==
    (last.op = "buildCache" /\ last.found /\ index.clears = 0) =>
        LET runtimeIds == {f.runtimeId :
                            f \in {g \in ItemsOf(last.arg) :
                                        g.parses /\ g.runtimeId # ""}}
            plugins == GetAllPlugins(index.cache)
        IN  /\ \A id \in runtimeIds :
                Cardinality({i \in DOMAIN plugins : plugins[i].runtimeId = id}) = 1
            /\ \A i \in DOMAIN plugins : plugins[i].runtimeId \in runtimeIds

\* the nodes resolveCollisions was called with, and the nodes it returned
Given == layout.nodes
Returned == ValueOf(layout.result)

\* two nodes that resolveCollisions treats as siblings
Siblings(a, b) == a.parentId = b.parentId

\* nodes k and l of the call are siblings and have no other sibling
OnlySiblings(k, l) ==
    /\ Siblings(Given[k], Given[l])
    /\ \A m \in DOMAIN Given \ {k, l} : ~Siblings(Given[m], Given[k])

\* node k moved by dx and dy in the call
MovedBy(k, dx, dy) ==
    /\ Returned[k].position.x = Given[k].position.x + dx
    /\ Returned[k].position.y = Given[k].position.y + dy

\* nodes k and l moved by (overlap + margin)/2 each, in opposite directions
\* along one axis
SplitEqually(k, l) ==
    LET overlap == GetOverlap(NodeRect(Given[k]), NodeRect(Given[l]),
                              DefaultMargin)
    IN  \E sign \in {-1, 1}, push \in {overlap.x + DefaultMargin,
                                       overlap.y + DefaultMargin} :
            \/ /\ push = overlap.x + DefaultMargin
               /\ 2 * (Returned[k].position.x - Given[k].position.x) = sign * push
               /\ 2 * (Returned[l].position.x - Given[l].position.x) = 0 - sign * push
               /\ Returned[k].position.y = Given[k].position.y
               /\ Returned[l].position.y = Given[l].position.y
            \/ /\ push = overlap.y + DefaultMargin
               /\ 2 * (Returned[k].position.y - Given[k].position.y) = sign * push
               /\ 2 * (Returned[l].position.y - Given[l].position.y) = 0 - sign * push
               /\ Returned[k].position.x = Given[k].position.x
               /\ Returned[l].position.x = Given[l].position.x

\* C22: two siblings that overlap, the margin included, do not collide in the
\* positions resolveCollisions returns; when they have no other sibling and
\* their overlap is above the threshold, both have moved, by
\* (overlap + margin)/2 each, in opposite directions along one axis; below the
\* threshold neither has moved.
C22_SiblingsSeparatedEqually ==
    IsPresent(layout.result) =>
        \A k, l \in DOMAIN Given :
            (/\ k < l
             /\ Siblings(Given[k], Given[l])
             /\ GetOverlap(NodeRect(Given[k]), NodeRect(Given[l]),
                           DefaultMargin).x > 0) =>
                /\ ~Collide(NodeRect(Returned[k]), NodeRect(Returned[l]),
                            DefaultOverlapThreshold, DefaultMargin)
                /\ OnlySiblings(k, l) =>
                    IF Collide(NodeRect(Given[k]), NodeRect(Given[l]),
                               DefaultOverlapThreshold, DefaultMargin)
                    THEN SplitEqually(k, l)
                    ELSE MovedBy(k, 0, 0) /\ MovedBy(l, 0, 0)

\* top-level a and b overlapped by an eighth of a pixel in x and were pushed
\* apart in x by half of that and the margin each, while c, a child that lies
\* on a, stayed
C22_PairPushedApart ==
    /\ IsPresent(layout.result)
    /\ Given[1].parentId = NoParent /\ Given[2].parentId = NoParent
    /\ Given[3].parentId = "g"
    /\ Given[2].position = [x |-> 210 * PerPixel - PerPixel \div 8, y |-> 0]
    /\ Given[3].position = [x |-> 50 * PerPixel, y |-> 50 * PerPixel]
    /\ MovedBy(1, 0 - (5 * PerPixel + PerPixel \div 16), 0)
    /\ MovedBy(2, 5 * PerPixel + PerPixel \div 16, 0)
    /\ MovedBy(3, 0, 0)

\* the nodes of the call that are siblings of node k, node k included
SiblingsOf(k) == SelectSeq(Given, LAMBDA n : Siblings(n, Given[k]))

\* the node with the id among nodes
NodeWithId(nodes, id) ==
    nodes[CHOOSE i \in DOMAIN nodes : nodes[i].id = id]

\* C23: resolveCollisions moves a node because of its siblings only: every
\* node is returned at the position it gets when the call is given the node and
\* its siblings alone, so a node without a sibling stays; when no two siblings
\* collide, every node is returned at its position; and the nodes are returned
\* in their order with their id, width, height and parentId.
C23_OnlySiblingsSeparated ==
    IsPresent(layout.result) =>
        /\ Len(Returned) = Len(Given)
        /\ \A k \in DOMAIN Given :
            /\ Returned[k] = [Given[k] EXCEPT !.position = Returned[k].position]
            /\ Returned[k].position =
                   NodeWithId(ResolveCollisions(SiblingsOf(k), DefaultMaxIterations,
                                                DefaultOverlapThreshold,
                                                DefaultMargin),
                              Given[k].id).position
            /\ Len(SiblingsOf(k)) = 1 => MovedBy(k, 0, 0)
        /\ (\A k, l \in DOMAIN Given :
                (k < l /\ Siblings(Given[k], Given[l])) =>
                    ~Collide(NodeRect(Given[k]), NodeRect(Given[l]),
                             DefaultOverlapThreshold, DefaultMargin))
            => Returned = Given

\* a top-level node, a child of g and a child of h lay on each other, and all
\* three were returned at their positions
C23_NodesOfDifferentParentsStay ==
    /\ IsPresent(layout.result)
    /\ Given[1].parentId = NoParent
    /\ Given[2].parentId = "g"
    /\ Given[3].parentId = "h"
    /\ Given[2].position = [x |-> 0, y |-> 0]
    /\ Given[3].position = [x |-> 50 * PerPixel, y |-> 50 * PerPixel]
    /\ Returned = Given

\* the positions of a reply hold a position for the node id
HasPosition(reply, id) ==
    \E e \in DOMAIN reply.positions : reply.positions[e].key = id

\* C24: the worker has posted one reply for every request it has handled and
\* no exception has left its handler; the reply to a request whose simulation
\* threw carries an error text and, for every requested node, in the order of
\* the request, the position of the node on a grid of 8 columns:
\* x = col*(width+50)+50, y = row*(height+50)+50.
C24_OneReplyPerRequest ==
    /\ layout.posted = layout.requests
    /\ layout.escaped = 0
    /\ IsPresent(layout.data) =>
        LET nodes == ValueOf(layout.data).nodes
        IN  /\ Len(layout.replies) = 1
            /\ (last.arg.throws /\ Len(nodes) > 0) =>
                LET reply == layout.replies[1]
                IN  /\ IsPresent(reply.error)
                    /\ ValueOf(reply.error) # ""
                    /\ Len(reply.positions) = Len(nodes)
                    /\ \A k \in DOMAIN nodes :
                        /\ HasPosition(reply, nodes[k].id)
                        /\ reply.positions[k] =
                            [key |-> nodes[k].id,
                             value |->
                                [x |-> ((k - 1) % 8) * (nodes[k].width + 50) + 50,
                                 y |-> ((k - 1) \div 8) * (nodes[k].height + 50)
                                       + 50]]

\* the simulation of a request of nine nodes threw an Error: the reply carries
\* its message, the eighth node at the end of the first row and the ninth at
\* the start of the second
C24_FallbackGridPosted ==
    /\ IsPresent(layout.data)
    /\ Len(ValueOf(layout.data).nodes) = 9
    /\ ValueOf(layout.data).nodes[1].width = 200
    /\ layout.requests = 2
    /\ Len(layout.replies) = 1
    /\ layout.replies[1].error = Present("node not found")
    /\ layout.replies[1].positions[8] =
        [key |-> "n8", value |-> [x |-> 1800, y |-> 50]]
    /\ layout.replies[1].positions[9] =
        [key |-> "n9", value |-> [x |-> 50, y |-> 150]]

\* the stored groups without a stored node
EmptyGroups ==
    {g \in BagToSet(state.groups) : GetNodesInGroup(state, g.id) = EmptyBag}

\* C25: all stored groups without nodes have one and the same width and height.
C25_EmptyGroupsHaveOneSize ==
    \A g, h \in EmptyGroups : g.width = h.width /\ g.height = h.height

\* C26: a group that has nodes before and after a step is not stored narrower
\* or lower after the step than before it.
C26_NonEmptyGroupOnlyGrows ==
    [][\A g \in Groups(state), h \in Groups(state') :
          (/\ g.id = h.id
           /\ GetNodesInGroup(state, g.id) # EmptyBag
           /\ GetNodesInGroup(state', g.id) # EmptyBag) =>
              /\ h.width >= g.width
              /\ h.height >= g.height]_vars

\* the dependency groups added by the call, and those of them in row r
Added == ValueOf(layout.added)
RowYs == {Added[k].position.y : k \in DOMAIN Added}
InRow(y) == {k \in DOMAIN Added : Added[k].position.y = y}

\* C27: when none of the n >= 1 required plugins has a group yet, the added
\* dependency groups stand in rows of 5, every row, the last and a single
\* partial one included, has its horizontal midpoint at the horizontal midpoint
\* of the plugin group, and the first row starts 40 below the plugin group.
C27_GridCenteredUnderPluginGroup ==
    (IsPresent(layout.added) /\ layout.existing = {}) =>
        LET main == layout.mainGroupPosition
            numDeps == Len(layout.requiredPlugins)
            firstY == main.y + MainGroupHeight + 40
        IN  /\ Len(Added) = numDeps
            /\ \A k \in DOMAIN Added :
                Added[k].position.y = firstY + ((k - 1) \div 5) * (50 + 15)
            /\ \A y \in RowYs :
                LET left == CHOOSE k \in InRow(y) : \A j \in InRow(y) : k <= j
                    right == CHOOSE k \in InRow(y) : \A j \in InRow(y) : j <= k
                IN  /\ Cardinality(InRow(y)) <= 5
                    /\ \A k \in InRow(y) \ {left} :
                        Added[k].position.x
                            = Added[k - 1].position.x + Added[k - 1].width + 20
                    /\ Added[left].position.x
                        + Added[right].position.x + Added[right].width
                            = 2 * main.x + MainGroupWidth

\* C28: a position that complete mode has computed for a group stays the
\* position at which the group is shown: no step replaces it by another.
C28_CachedPositionKept ==
    [][\A e \in DOMAIN layout.completePositions :
          ShownAt(layout', layout.completePositions[e].key)
              = Present(layout.completePositions[e].value)]_vars

\* the package id the manifest of the group's plugin declares, if any
DeclaredPackageId(g) ==
    LET dirs == {dir \in DOMAIN Manifests :
                    /\ GroupIdOf(Manifests[dir].runtimeId) = g.id
                    /\ Manifests[dir].id # ""}
    IN  IF dirs = {} THEN Absent
        ELSE Present(Manifests[CHOOSE dir \in dirs : TRUE].id)

\* C29: every stored group of type plugin whose plugin's manifest declares a
\* package id has that package id as its label, and a focus on a file of a
\* plugin leaves the file's node in the plugin's group whether or not the
\* index is initialized.
C29_PluginGroupsLabelledByPackageId ==
    /\ \A g \in Groups(state) :
        (g.type = "plugin" /\ IsPresent(DeclaredPackageId(g))) =>
            g.label = ValueOf(DeclaredPackageId(g))
    /\ last.op = "onEditorChange" =>
        /\ HasId(state.nodes, nodeIdOf[last.arg])
        /\ HasId(state.groups, TheItem(state.nodes, nodeIdOf[last.arg]).groupId)

\* the rects of node k of the call and of its siblings
SiblingRects(k) ==
    [i \in 1..Len(SiblingsOf(k)) |-> NodeRect(SiblingsOf(k)[i])]

\* the variables of resolveNodeCollisions when it returns from the call on
\* node k and its siblings
SweptSiblings(k) ==
    IterationsFrom([rects |-> SiblingRects(k), hasCollisions |-> TRUE], 0,
                   layout.maxIterations, DefaultOverlapThreshold, DefaultMargin)

\* no two of the rects collide
NoneCollide(rects) ==
    \A i, j \in DOMAIN rects :
        i < j => ~Collide(rects[i], rects[j], DefaultOverlapThreshold,
                          DefaultMargin)

\* C31: on every set of siblings the loop of resolveNodeCollisions is left
\* after at most maxIterations sweeps, the nodes are returned where the last
\* sweep left them, and when the loop is left after fewer than maxIterations
\* sweeps no two of the siblings collide (no pair has an overlap above the
\* threshold).
C31_SweepsCappedOrSeparated ==
    IsPresent(layout.result) =>
        \A k \in DOMAIN Given :
            LET swept == SweptSiblings(k)
            IN  /\ swept.iterations <= layout.maxIterations
                /\ \E i \in DOMAIN swept.rects :
                       /\ swept.rects[i].id = Given[k].id
                       /\ Returned[k].position = [x |-> swept.rects[i].x,
                                                  y |-> swept.rects[i].y]
                /\ swept.iterations < layout.maxIterations =>
                       NoneCollide(swept.rects)

\* with the default cap three top-level nodes that lay on each other were
\* separated in more than two sweeps and fewer than the cap
C31_SeparatedBeforeTheCap ==
    /\ IsPresent(layout.result)
    /\ layout.maxIterations = DefaultMaxIterations
    /\ \A k \in DOMAIN Given : Given[k].parentId = NoParent
    /\ ~NoneCollide(SiblingRects(1))
    /\ SweptSiblings(1).iterations > 2
    /\ SweptSiblings(1).iterations < DefaultMaxIterations
    /\ NoneCollide(SweptSiblings(1).rects)

\* C32: every node that has a groupId refers to a group that is in the store
\* and has type plugin; a group of type dependency owns no file.
C32_NodesBelongToPluginGroups ==
    /\ \A n \in Nodes(state) :
           n.groupId # undefined =>
               \E g \in Groups(state) : g.id = n.groupId /\ g.type = "plugin"
    /\ \A g \in Groups(state) :
           g.type = "dependency" => ~OwnsFile(state, g.id)

\* the close of /w/b/y.ts emptied the plugin group of b, which plugin a
\* requires: group-b is a dependency group again and owns no file, while the
\* node of /w/a/Aa.ts is in the plugin group of a
C32_DemotedGroupOwnsNoFile ==
    /\ last = [op |-> "onDocumentClose", arg |-> "/w/b/y.ts", found |-> TRUE,
               group |-> "plugin"]
    /\ GroupTypeIn(state, "group-b") = "dependency"
    /\ ~OwnsFile(state, "group-b")
    /\ HasId(state.nodes, nodeIdOf["/w/a/Aa.ts"])
    /\ TheItem(state.nodes, nodeIdOf["/w/a/Aa.ts"]).groupId = "group-a"
    /\ GroupTypeIn(state, "group-a") = "plugin"

\* C33: every group of type dependency is listed in the requiredPlugins of a
\* group of type plugin that is in the store.
C33_NoOrphanPlaceholders ==
    \A g \in Groups(state) :
        g.type = "dependency" =>
            \E p \in Groups(state) :
                /\ p.type = "plugin"
                /\ Requires(p, RemoveFirst(g.id, "group-"))

\* the ids of the groups with their types, the nodes, and the ids of the edges
GroupTypes(st) == {<<g.id, g.type>> : g \in Groups(st)}
EdgeIds(st) == {e.id : e \in Edges(st)}

SameGraph(before, after) ==
    /\ GroupTypes(after) = GroupTypes(before)
    /\ after.nodes = before.nodes
    /\ EdgeIds(after) = EdgeIds(before)

\* C34: when handleModeChange('journey') runs in a store that focus and
\* document-closed events have built, the handleModeChange('plugin') that
\* follows it leaves a store with the group ids and types, the nodes and the
\* edge ids the store had before the two calls, in whatever order the plugin
\* groups are walked.
C34_JourneyThenPluginRestores ==
    [][Step("handleModeChange", "journey") =>
        \A pluginGroups \in
                Orderings(Filter(state'.groups, LAMBDA g : g.type = "plugin")) :
            SameGraph(state, TopUpFrom(state', pluginGroups, 1))
      ]_vars

\* the round trip is complete in a store with files of a and c: journey mode
\* had deleted the placeholders of b and d, and plugin mode has put them back
C34_PlaceholdersRestored ==
    /\ last = [op |-> "handleModeChange", arg |-> "plugin", found |-> TRUE,
               group |-> "none"]
    /\ GroupTypes(state) = {<<"group-a", "plugin">>, <<"group-c", "plugin">>,
                            <<"group-b", "dependency">>,
                            <<"group-d", "dependency">>}
    /\ HasId(state.nodes, nodeIdOf["/w/a/Aa.ts"])
    /\ HasId(state.nodes, nodeIdOf["/w/c/z.ts"])

\* no two nodes of one group have the same stored position
DistinctPositions ==
    \A e, f \in layout.nodePositions :
        (e.id # f.id /\ e.groupId = f.groupId) => e.position # f.position

\* every node lies within the height of its group
WithinGroupHeight ==
    \A e \in layout.nodePositions :
        HasId(state.groups, e.groupId) =>
            e.position.y + NODE_HEIGHT <= TheItem(state.groups, e.groupId).height

\* C35: after any sequence of file opens and closes no two nodes of the same
\* group have the same stored position, and every node lies within the height
\* of its group (node y + row height <= group height).
C35_FilesStackWithoutColliding ==
    DistinctPositions /\ WithinGroupHeight

\* the ids the store holds and the ids the webview holds
StoredIds(st) ==
    [nodes |-> {n.id : n \in Nodes(st)}, edges |-> {e.id : e \in Edges(st)},
     groups |-> {g.id : g \in Groups(st)}]

MirroredIds(v) ==
    [nodes |-> IdsOf(v.nodes), edges |-> IdsOf(v.edges), groups |-> IdsOf(v.groups)]

\* no message is in flight in either direction
Delivered == layout.toWebview = <<>> /\ layout.toExtension = <<>>

\* C36: once all messages in both directions have been delivered, the store
\* and the webview hold the same node ids, edge ids and group ids.
C36_NoLostUpdate ==
    Delivered => StoredIds(state) = MirroredIds(view)

\* the step is a post of the extension while the webview is not ready
PostedUnready ==
    /\ last'.group = "extension"
    /\ last'.op \in {message.type : message \in SyncMessages}
    /\ ~(layout.hasView /\ layout.isReady)

\* the loadState messages among the messages
LoadStates(messages) == SelectSeq(messages, LAMBDA message : message.type = "loadState")

\* C37: a message posted while the view is not resolved or its webview is not
\* ready is put at the end of the queue and not posted to the webview; the
\* ready message posts the queued messages to the webview, each once and in
\* the order of the queue, after the messages posted before and before the
\* saved state, and leaves the queue empty; no other step changes the queue.
C37_QueuedDeliveredOnceInOrder ==
    [][/\ PostedUnready =>
            /\ layout'.pendingMessages
               = Append(layout.pendingMessages,
                        [type |-> last'.op, item |-> last'.arg])
            /\ layout'.toWebview = layout.toWebview
       /\ Step("ready", "") =>
            /\ layout'.pendingMessages = <<>>
            /\ \E saved \in {<<>>} \cup {<<m>> : m \in
                        {layout'.toWebview[i] : i \in DOMAIN layout'.toWebview}} :
                   /\ LoadStates(saved) = saved
                   /\ layout'.toWebview
                      = layout.toWebview \o layout.pendingMessages \o saved
       /\ (~PostedUnready /\ ~Step("ready", "")) =>
            layout'.pendingMessages = layout.pendingMessages
      ]_vars

\* the node was added and removed before the webview was ready and an edge was
\* added while it was loading; ready has posted the two queued messages in
\* their order, before the saved state
C37_TwoQueuedThenSavedState ==
    /\ last.op = "ready"
    /\ ~last.found
    /\ layout.pendingMessages = <<>>
    /\ Len(layout.toWebview) = 3
    /\ layout.toWebview[1].type = "addNode"
    /\ layout.toWebview[2].type = "addEdge"
    /\ layout.toWebview[3].type = "loadState"

\* the scans that have started and not completed
PendingScans == {p \in DOMAIN index.promises : index.promises[p] = "pending"}

\* the step completes scan p
Completes(p) ==
    /\ p \in PendingScans
    /\ index'.promises[p] = "fulfilled"

\* C38: a scan that clear() has detached from the index (it is not the scan of
\* _initPromise) leaves the map as it is when it completes, and the call that
\* awaits it does not set _initialized, so that after clear() the map stays
\* empty and isInitialized() stays false until a scan started by a later
\* initialize() has completed; and no two scans are pending at a time.
C38_ClearDetachesTheScan ==
    [][/\ \A p \in DOMAIN index.promises :
            (Completes(p) /\ index.initPromise # p) =>
                index'.cache = index.cache
       /\ (~index.initialized /\ index'.initialized) =>
            \E c \in DOMAIN index.calls :
                /\ index.calls[c].status = "awaiting"
                /\ index'.calls[c].status = "resolved"
                /\ index.calls[c].promise = index.initPromise
       /\ Cardinality({p \in DOMAIN index'.promises :
                          index'.promises[p] = "pending"}) <= 1
      ]_vars

====
